---- MODULE Spec2Model ----
(***************************************************************************)
(* Retrieval-and-ranking core of backend/services/pipeline.py:             *)
(* normalize_scores, combine_scores, the top-K ranking,                    *)
(* get_rag_context_from_pinecone_matches, process_genes_batch, and the     *)
(* steps of answer_question, answer_question_stream and                    *)
(* continue_with_research_stream that follow the two index queries.        *)
(*                                                                         *)
(* Text.  A Python str is modelled as a sequence of fragments; a fragment  *)
(* is a run of characters that none of the string operations used by the   *)
(* code can split: one whitespace character, one of the two doi.org URL    *)
(* prefixes, or the body of an identifier.  strip, lower and replace are   *)
(* computed fragment by fragment.                                          *)
(*                                                                         *)
(* Scores.  Raw similarity scores are integers (a fixed-point reading of   *)
(* the index's score); normalized and blended scores are exact fractions   *)
(* <<numerator, denominator>> in lowest terms.                             *)
(*                                                                         *)
(* Dictionaries.  A Python dict is a sequence of [key, value] entries with *)
(* pairwise distinct keys, in insertion order.                             *)
(***************************************************************************)
EXTENDS Integers, Sequences, FiniteSets, TLC

VARIABLES
    pc,               \* position of the running call
    alpha,            \* settings.alpha, a fraction in [0,1]
    top_k,            \* settings.top_k
    bge_matches,      \* bge_matches["matches"]
    pub_matches,      \* pub_matches["matches"]
    bge_scores,       \* normalize_scores(bge_matches["matches"])
    pub_scores,       \* normalize_scores(pub_matches["matches"])
    combined_scores,  \* combine_scores(bge_scores, pub_scores)
    top_dois,         \* ranked identifier list
    all_matches,      \* the reconciler's identifier -> summary dictionary
    context_blocks,   \* the reconciler's emitted context blocks
    confirmed_dois,   \* the reconciler's confirmed identifier list
    context_counter,  \* the reconciler's citation counter
    doi_index,        \* position of the for loop over top_dois
    context,          \* the joined context string returned by the reconciler
    caller,           \* the orchestrator that is running, "none" for a function called on its own
    transition_message, \* answer_question's transition_message
    final_answer,     \* answer_question's final_answer
    full_response,    \* the streaming orchestrators' full_response
    gene_mentions,    \* the symbols handed to process_genes_batch
    gene_summaries,   \* the gene records (genes in continue_with_research_stream)
    calls,            \* the collaborators called so far, in order
    events,           \* the events yielded so far by a streaming orchestrator
    result,           \* <<the tuple returned by answer_question>>, empty before it returns
    reply,            \* what the classifier request of is_genetics_question gave
    is_genetic,       \* is_genetics_question(question, api_key)
    has_bean_keywords,\* whether the question holds one of bean_keywords
    choice,           \* response.choices[0] of the function-call request
    preview,          \* answer_bean_query(args)[0]
    full_md,          \* answer_bean_query(args)[1]
    chart_data,       \* answer_bean_query(args)[2]
    handles,          \* the module globals _bge_model, _tokenizer, _pub_model, _device
    loads,            \* how many times each heavy model has been loaded
    threads,          \* the callers of get_models: position, and what was returned
    conversation_history, \* the list the caller passed in
    messages,         \* the message list of the last synthesizer request
    upstream          \* the stream opened by query_openai_stream: none, open, closed

vars == <<pc, alpha, top_k, bge_matches, pub_matches, bge_scores, pub_scores,
          combined_scores, top_dois, all_matches, context_blocks,
          confirmed_dois, context_counter, doi_index, context, caller,
          transition_message, final_answer, full_response, gene_mentions,
          gene_summaries, calls, events, result, reply, is_genetic,
          has_bean_keywords, choice, preview, full_md, chart_data,
          handles, loads, threads, conversation_history, messages, upstream>>

\* what an orchestrator assigns after the reconciler has returned
tail == <<caller, transition_message, final_answer, full_response, gene_mentions,
          gene_summaries, calls, events, result>>

\* what an orchestrator assigns before the indexes are queried
front == <<reply, is_genetic, has_bean_keywords, choice, preview, full_md, chart_data>>

\* what lives outside one run of an orchestrator's steps: the module globals,
\* the caller's history, the request to and the stream of the completion service
process == <<handles, loads, threads, conversation_history, messages, upstream>>

-----------------------------------------------------------------------------
(* Bounds of the model *)

\* matches returned by the two index queries together
MaxMatches == 3
\* matches in the two match sets handed directly to the reconciler, together
MaxRagMatches == 2
\* length of a ranked identifier list handed directly to the reconciler
MaxRanked == 2
\* raw scores range over 1..MaxScore
MaxScore == 3
\* length of a match sequence handed directly to normalize_scores
MaxNormLen == 3
\* raw scores of such a sequence range over 1..MaxNormScore
MaxNormScore == 3
\* settings.top_k ranges over 1..MaxTopK
MaxTopK == 3
\* keys of a score map handed directly to combine_scores
MaxBlendKeys == 2
\* settings.top_k ranges over 1..MaxBlendTopK when the blend is ranked
MaxBlendTopK == 2
\* length of a symbol list handed directly to process_genes_batch
MaxGenes == 3
\* matches of the two answers together when an orchestrator runs to its end
MaxTailMatches == 2
\* raw scores of those matches range over 1..MaxTailScore
MaxTailScore == 2
\* fragments streamed by the completion service before it ends or fails
MaxChunks == 2

-----------------------------------------------------------------------------
(* Text *)

WS == " "
HttpsPrefix == "https://doi.org/"
HttpPrefix == "http://doi.org/"

RECURSIVE lstrip(_)
lstrip(s) ==
    IF s # <<>> /\ Head(s) = WS THEN lstrip(Tail(s)) ELSE s

RECURSIVE rstrip(_)
rstrip(s) ==
    IF s # <<>> /\ s[Len(s)] = WS THEN rstrip(SubSeq(s, 1, Len(s) - 1)) ELSE s

\* str.strip()
strip(s) == rstrip(lstrip(s))

lower_fragment(t) ==
    CASE t = "10.1/ABC" -> "10.1/abc"
      [] t \in {"True", "TRUE"} -> "true"
      [] t = "HTTPS://DOI.ORG/" -> HttpsPrefix
      [] OTHER -> t

\* str.lower()
lower(s) == [i \in 1..Len(s) |-> lower_fragment(s[i])]

\* str.replace(old, "")
replace(s, old) == SelectSeq(s, LAMBDA t : t # old)

\* .replace("https://doi.org/", "").replace("http://doi.org/", "")
strip_doi_url(s) == replace(replace(s, HttpsPrefix), HttpPrefix)

-----------------------------------------------------------------------------
(* Fractions *)

RECURSIVE GCD(_, _)
GCD(a, b) == IF b = 0 THEN a ELSE GCD(b, a % b)

\* n/d in lowest terms, d > 0
Frac(n, d) == LET g == GCD(n, d) IN IF g = 0 THEN <<0, 1>> ELSE <<n \div g, d \div g>>

Zero == <<0, 1>>
One == <<1, 1>>

FracLess(x, y) == x[1] * y[2] < y[1] * x[2]
FracLeq(x, y) == x[1] * y[2] <= y[1] * x[2]
FracAdd(x, y) == Frac(x[1] * y[2] + y[1] * x[2], x[2] * y[2])
FracMul(x, y) == Frac(x[1] * y[1], x[2] * y[2])
FracSub(x, y) == Frac(x[1] * y[2] - y[1] * x[2], x[2] * y[2])

-----------------------------------------------------------------------------
(* Dictionaries *)

dictKeys(d) == [i \in 1..Len(d) |-> d[i].key]
dictKeySet(d) == {d[i].key : i \in 1..Len(d)}
dictHas(d, k) == \E i \in 1..Len(d) : d[i].key = k
dictValue(d, k) == d[CHOOSE i \in 1..Len(d) : d[i].key = k].value

\* d.get(k, default)
dictGet(d, k, default) == IF dictHas(d, k) THEN dictValue(d, k) ELSE default

\* d[k] = v : a new key goes last, an existing key keeps its place
dictSet(d, k, v) ==
    IF dictHas(d, k)
    THEN [i \in 1..Len(d) |-> IF d[i].key = k THEN [key |-> k, value |-> v] ELSE d[i]]
    ELSE Append(d, [key |-> k, value |-> v])

\* metadata.get(field, default) : metadata is a function on the fields present
metaGet(md, field, default) == IF field \in DOMAIN md THEN md[field] ELSE default

-----------------------------------------------------------------------------
(* normalize_scores *)

SeqMax(s) == CHOOSE x \in {s[i] : i \in 1..Len(s)} : \A j \in 1..Len(s) : s[j] <= x
SeqMin(s) == CHOOSE x \in {s[i] : i \in 1..Len(s)} : \A j \in 1..Len(s) : x <= s[j]

\* MinMaxScaler().fit_transform(scores) on a column whose range is not zero
MinMaxScaler(scores) ==
    [i \in 1..Len(scores) |->
        Frac(scores[i] - SeqMin(scores), SeqMax(scores) - SeqMin(scores))]

\* m["metadata"].get("doi", f"{m['id']}")
match_key(m) == metaGet(m.metadata, "doi", m.id)

\* {match_key(m): vals[i] for i, m in enumerate(matches)}, first n matches
RECURSIVE score_dict(_, _, _)
score_dict(matches, vals, n) ==
    IF n = 0 THEN <<>>
    ELSE dictSet(score_dict(matches, vals, n - 1), match_key(matches[n]), vals[n])

normalize_degenerate_one(matches) ==
    LET scores == [i \in 1..Len(matches) |-> matches[i].score]
    IN  IF scores = <<>> \/ SeqMax(scores) = SeqMin(scores)
        THEN score_dict(matches, [i \in 1..Len(matches) |-> One], Len(matches))
        ELSE score_dict(matches, MinMaxScaler(scores), Len(matches))

normalize_scores(matches) ==
    LET scores == [i \in 1..Len(matches) |-> matches[i].score]
    IN  IF scores = <<>> \/ SeqMax(scores) = SeqMin(scores)
        THEN score_dict(matches, [i \in 1..Len(matches) |-> Zero], Len(matches))
        ELSE score_dict(matches, MinMaxScaler(scores), Len(matches))

-----------------------------------------------------------------------------
(* combine_scores and the ranking *)

\* the cutoff 0.05
Threshold == Frac(1, 20)

\* variants of the blend: the second term unweighted, both terms weighted
\* by alpha, the weights exchanged, a missing second score replaced by the first
blend_unweighted_pub(bge, pub, a, src) ==
    FracAdd(FracMul(a, dictGet(bge, src, Zero)), dictGet(pub, src, Zero))

blend_same_weight(bge, pub, a, src) ==
    FracAdd(FracMul(a, dictGet(bge, src, Zero)), FracMul(a, dictGet(pub, src, Zero)))

blend_swapped(bge, pub, a, src) ==
    FracAdd(FracMul(FracSub(One, a), dictGet(bge, src, Zero)),
            FracMul(a, dictGet(pub, src, Zero)))

blend_pub_defaults_to_bge(bge, pub, a, src) ==
    FracAdd(FracMul(a, dictGet(bge, src, Zero)),
            FracMul(FracSub(One, a), dictGet(pub, src, dictGet(bge, src, Zero))))

\* alpha * bge_val + (1 - alpha) * pub_val
blend(bge, pub, a, src) ==
    FracAdd(FracMul(a, dictGet(bge, src, Zero)),
            FracMul(FracSub(One, a), dictGet(pub, src, Zero)))

\* set(bge_scores) | set(pub_scores)
all_sources(bge, pub) == dictKeySet(bge) \cup dictKeySet(pub)

\* the orders in which a set of strings can be iterated
IterationOrders(S) ==
    {o \in [1..Cardinality(S) -> S] : \A i, j \in 1..Cardinality(S) : o[i] = o[j] => i = j}

\* a variant of the loop that keeps a score equal to the threshold
RECURSIVE combine_loop_keeps_threshold(_, _, _, _, _)
combine_loop_keeps_threshold(bge, pub, a, order, n) ==
    IF n = 0 THEN <<>>
    ELSE LET combined == combine_loop_keeps_threshold(bge, pub, a, order, n - 1)
             score == blend(bge, pub, a, order[n])
         IN  IF FracLeq(Threshold, score)
             THEN dictSet(combined, order[n], score)
             ELSE combined

\* a variant of the loop that keeps every score
RECURSIVE combine_loop_keeps_all(_, _, _, _, _)
combine_loop_keeps_all(bge, pub, a, order, n) ==
    IF n = 0 THEN <<>>
    ELSE dictSet(combine_loop_keeps_all(bge, pub, a, order, n - 1),
                 order[n], blend(bge, pub, a, order[n]))

\* the loop over all_sources, iterated in the given order, first n sources
RECURSIVE combine_loop(_, _, _, _, _)
combine_loop(bge, pub, a, order, n) ==
    IF n = 0 THEN <<>>
    ELSE LET combined == combine_loop(bge, pub, a, order, n - 1)
             score == blend(bge, pub, a, order[n])
         IN  IF FracLess(Threshold, score)
             THEN dictSet(combined, order[n], score)
             ELSE combined

combine_scores(bge, pub, a, order) == combine_loop(bge, pub, a, order, Len(order))

\* sorted(items, key=lambda x: x[1], reverse=True): stable, first n items
RECURSIVE sorted_desc(_, _)
sorted_desc(items, n) ==
    IF n = 0 THEN <<>>
    ELSE LET before == sorted_desc(items, n - 1)
             x == items[n]
             \* x goes after every item whose score is not smaller
             keep == Cardinality({i \in 1..Len(before) : FracLeq(x.value, before[i].value)})
         IN  SubSeq(before, 1, keep) \o <<x>> \o SubSeq(before, keep + 1, Len(before))

\* a variant of the ranking in which an item goes before the items of equal score
RECURSIVE sorted_desc_ties_reversed(_, _)
sorted_desc_ties_reversed(items, n) ==
    IF n = 0 THEN <<>>
    ELSE LET before == sorted_desc_ties_reversed(items, n - 1)
             x == items[n]
             keep == Cardinality({i \in 1..Len(before) :
                                     FracLess(x.value, before[i].value)})
         IN  SubSeq(before, 1, keep) \o <<x>> \o SubSeq(before, keep + 1, Len(before))

top_sources_ties_reversed(combined, k) ==
    LET ranked == sorted_desc_ties_reversed(combined, Len(combined))
    IN  SubSeq(ranked, 1, IF k < Len(ranked) THEN k ELSE Len(ranked))

\* sorted(...)[:top_k]
top_sources(combined, k) ==
    LET ranked == sorted_desc(combined, Len(combined))
    IN  SubSeq(ranked, 1, IF k < Len(ranked) THEN k ELSE Len(ranked))

-----------------------------------------------------------------------------
(* get_rag_context_from_pinecone_matches *)

\* add_match without the test of the summary
add_match_any_summary(d, m) ==
    LET doi == metaGet(m.metadata, "doi", <<>>)
        summary == metaGet(m.metadata, "summary", <<>>)
    IN  IF doi # <<>>
        THEN dictSet(d, strip(doi), summary)
        ELSE d

\* add_match keeping the first summary written for a key
add_match_first_wins(d, m) ==
    LET doi == metaGet(m.metadata, "doi", <<>>)
        summary == metaGet(m.metadata, "summary", <<>>)
    IN  IF doi # <<>> /\ summary # <<>> /\ ~dictHas(d, strip(doi))
        THEN dictSet(d, strip(doi), summary)
        ELSE d

\* one iteration of the loops that fill all_matches
add_match(d, m) ==
    LET doi == metaGet(m.metadata, "doi", <<>>)
        summary == metaGet(m.metadata, "summary", <<>>)
    IN  IF doi # <<>> /\ summary # <<>>
        THEN dictSet(d, strip(doi), summary)
        ELSE d

\* the loop over the first n matches of one index's answer
RECURSIVE add_matches(_, _, _)
add_matches(d, matches, n) ==
    IF n = 0 THEN d ELSE add_match(add_matches(d, matches, n - 1), matches[n])

\* all_matches after both loops: BGE first, PubMedBERT second
build_all_matches(bge, pub) ==
    add_matches(add_matches(<<>>, bge, Len(bge)), pub, Len(pub))

\* the condition of the alternative matching
alt_match(clean_target_doi, match_doi) ==
    \/ lower(clean_target_doi) = lower(match_doi)
    \/ strip_doi_url(clean_target_doi) = strip_doi_url(match_doi)

\* resolve_doi taking the last key of the scan instead of the first
resolve_doi_last_hit(d, doi) ==
    LET clean_target_doi == strip(doi)
        hits == {i \in 1..Len(d) : alt_match(clean_target_doi, d[i].key)}
    IN  IF dictHas(d, clean_target_doi) THEN <<clean_target_doi>>
        ELSE IF hits = {} THEN <<>>
        ELSE <<d[CHOOSE i \in hits : \A j \in hits : j <= i].key>>

\* the dictionary key under which a ranked identifier is emitted: <<key>>, or
\* <<>> when neither the exact lookup nor the scan finds one
resolve_doi(d, doi) ==
    LET clean_target_doi == strip(doi)
        hits == {i \in 1..Len(d) : alt_match(clean_target_doi, d[i].key)}
    IN  IF dictHas(d, clean_target_doi) THEN <<clean_target_doi>>
        ELSE IF hits = {} THEN <<>>
        ELSE <<d[CHOOSE i \in hits : \A j \in hits : i <= j].key>>

\* context_block numbering from 0
context_block_zero_based(n, doi, summary) ==
    <<"[", ToString(n - 1), "] Source: ">> \o doi \o <<"\n">> \o summary

\* f"[{context_counter}] Source: {doi}\n{summary}"
context_block(n, doi, summary) ==
    <<"[", ToString(n), "] Source: ">> \o doi \o <<"\n">> \o summary

\* counter_after counting every ranked identifier
counter_after_always(counter, emitted) == counter + 1

\* context_counter after a ranked identifier has been handled
counter_after(counter, emitted) == IF emitted THEN counter + 1 ELSE counter

\* "\n\n".join(blocks), first n blocks
RECURSIVE join_blocks(_, _)
join_blocks(blocks, n) ==
    IF n = 0 THEN <<>>
    ELSE IF n = 1 THEN blocks[1]
    ELSE join_blocks(blocks, n - 1) \o <<"\n\n">> \o blocks[n]

\* the state of the loop over top_dois after its first n iterations
RECURSIVE rag_loop(_, _, _)
rag_loop(d, top, n) ==
    IF n = 0 THEN [blocks |-> <<>>, confirmed |-> <<>>, counter |-> 1]
    ELSE LET before == rag_loop(d, top, n - 1)
             key == resolve_doi(d, top[n])
         IN  IF key = <<>>
             THEN [before EXCEPT !.counter = counter_after(before.counter, FALSE)]
             ELSE [blocks |-> Append(before.blocks,
                                context_block(before.counter, key[1], dictValue(d, key[1]))),
                   confirmed |-> Append(before.confirmed, key[1]),
                   counter |-> counter_after(before.counter, TRUE)]

-----------------------------------------------------------------------------
(* Inputs *)

DoiUpper == <<"10.1/ABC">>
DoiLower == <<"10.1/abc">>
DoiPadded == <<WS, "10.1/ABC", WS>>
DoiHttp == <<HttpPrefix, "10.1/ABC">>
DoiHttps == <<HttpsPrefix, "10.1/ABC">>
DoiOther == <<"10.2/x">>
EmptyStr == <<>>

StreamCallers == {"answer_question_stream", "continue_with_research_stream"}

\* the models are loaded, no caller is inside get_models, the history is
\* empty, nothing has been sent to the completion service
ProcessUnassigned ==
    /\ handles = [bge_model |-> 1, tokenizer |-> 1, pub_model |-> 1, device |-> 1]
    /\ loads = [bge_model |-> 1, tokenizer |-> 1, pub_model |-> 1]
    /\ threads = <<>>
    /\ conversation_history = <<>>
    /\ messages = <<>>
    /\ upstream = "none"

\* nothing of the classification and of the tabular analysis is assigned
FrontUnassigned ==
    /\ reply = [raised |-> FALSE, content |-> EmptyStr]
    /\ is_genetic = FALSE
    /\ has_bean_keywords = FALSE
    /\ choice = [finish_reason |-> "", name |-> ""]
    /\ preview = EmptyStr
    /\ full_md = EmptyStr
    /\ chart_data = <<>>

\* the locals that the steps after the reconciler assign, not yet assigned
Unassigned ==
    /\ transition_message = EmptyStr
    /\ final_answer = EmptyStr
    /\ full_response = EmptyStr
    /\ gene_mentions = <<>>
    /\ gene_summaries = <<>>
    /\ calls = <<>>
    /\ events = <<>>
    /\ result = <<>>
    /\ FrontUnassigned
    /\ ProcessUnassigned

\* the id of the match at position i of an index's answer (unique per index)
VectorId(i) == <<"vec-", ToString(i)>>

\* the summary text stored with the match at position i of index ix
SummaryOf(ix, i) == <<"summary-", ix, ToString(i)>>

\* metadata of a match: a doi among dois with its summary, or one of the
\* four ways of lacking a doi or a summary (empty string, field absent)
MetadataAt(ix, i, dois) ==
    {[doi |-> d, summary |-> SummaryOf(ix, i)] : d \in dois}
        \cup {[doi |-> EmptyStr, summary |-> SummaryOf(ix, i)],
              [summary |-> SummaryOf(ix, i)],
              [doi |-> DoiUpper, summary |-> EmptyStr],
              [doi |-> DoiUpper]}

MatchAt(ix, i, dois, maxScore) ==
    {[id |-> VectorId(i), score |-> sc, metadata |-> md] :
        sc \in 1..maxScore, md \in MetadataAt(ix, i, dois)}

\* the answers of index ix that hold exactly n matches
RECURSIVE MatchSeqs(_, _, _, _)
MatchSeqs(ix, n, dois, maxScore) ==
    IF n = 0 THEN {<<>>}
    ELSE {Append(s, m) : s \in MatchSeqs(ix, n - 1, dois, maxScore),
                         m \in MatchAt(ix, n, dois, maxScore)}

-----------------------------------------------------------------------------
(* normalize_scores called on its own *)

NormDois == {EmptyStr, DoiUpper, DoiPadded}

NormMatchAt(i) ==
    {[id |-> VectorId(i), score |-> sc, metadata |-> md] :
        sc \in 1..MaxNormScore,
        md \in {[doi |-> d, summary |-> SummaryOf("bge", i)] : d \in NormDois}
                 \cup {[summary |-> SummaryOf("bge", i)]}}

RECURSIVE NormSeqs(_)
NormSeqs(n) ==
    IF n = 0 THEN {<<>>}
    ELSE {Append(s, m) : s \in NormSeqs(n - 1), m \in NormMatchAt(n)}

NormInit ==
    /\ pc = "norm_call"
    /\ \E n \in 0..MaxNormLen : bge_matches \in NormSeqs(n)
    /\ pub_matches = <<>>
    /\ alpha = One
    /\ top_k = 1
    /\ bge_scores = <<>>
    /\ pub_scores = <<>>
    /\ combined_scores = <<>>
    /\ top_dois = <<>>
    /\ all_matches = <<>>
    /\ context_blocks = <<>>
    /\ confirmed_dois = <<>>
    /\ context_counter = 1
    /\ doi_index = 1
    /\ context = EmptyStr
    /\ caller = "none"
    /\ Unassigned

NormalizeCall ==
    /\ pc = "norm_call"
    /\ bge_scores' = normalize_scores(bge_matches)
    /\ pc' = "norm_done"
    /\ UNCHANGED <<alpha, top_k, bge_matches, pub_matches, pub_scores,
                   combined_scores, top_dois, all_matches, context_blocks,
                   confirmed_dois, context_counter, doi_index, context>>
    /\ UNCHANGED tail
    /\ UNCHANGED front
    /\ UNCHANGED process

NormNext == NormalizeCall

NormSpec == NormInit /\ [][NormNext]_vars

-----------------------------------------------------------------------------
(* get_rag_context_from_pinecone_matches called on its own *)

RagDois == {DoiUpper, DoiLower, DoiPadded, DoiHttp}
RankedIds == {DoiUpper, DoiLower, DoiPadded, DoiHttps, DoiOther}

RankedLists == UNION {[1..k -> RankedIds] : k \in 0..MaxRanked}

RagInit ==
    /\ pc = "rag_build"
    /\ \E nb \in 0..MaxRagMatches : \E np \in 0..(MaxRagMatches - nb) :
          /\ bge_matches \in MatchSeqs("bge", nb, RagDois, 1)
          /\ pub_matches \in MatchSeqs("pub", np, RagDois, 1)
    /\ top_dois \in RankedLists
    /\ alpha = One
    /\ top_k = 1
    /\ bge_scores = <<>>
    /\ pub_scores = <<>>
    /\ combined_scores = <<>>
    /\ all_matches = <<>>
    /\ context_blocks = <<>>
    /\ confirmed_dois = <<>>
    /\ context_counter = 1
    /\ doi_index = 1
    /\ context = EmptyStr
    /\ caller = "none"
    /\ Unassigned

\* lines 105-125: the two result lists and the lookup dictionary
BuildLookup ==
    /\ pc = "rag_build"
    /\ all_matches' = build_all_matches(bge_matches, pub_matches)
    /\ context_blocks' = <<>>
    /\ confirmed_dois' = <<>>
    /\ context_counter' = 1
    /\ doi_index' = 1
    /\ pc' = "rag_loop"
    /\ UNCHANGED <<alpha, top_k, bge_matches, pub_matches, bge_scores, pub_scores,
                   combined_scores, top_dois, context>>
    /\ UNCHANGED tail
    /\ UNCHANGED front
    /\ UNCHANGED process

\* lines 131-147: one iteration of the loop over top_dois
ReconcileStep ==
    /\ pc = "rag_loop"
    /\ doi_index <= Len(top_dois)
    /\ LET key == resolve_doi(all_matches, top_dois[doi_index])
       IN  /\ context_blocks' =
                IF key = <<>> THEN context_blocks
                ELSE Append(context_blocks,
                        context_block(context_counter, key[1], dictValue(all_matches, key[1])))
           /\ confirmed_dois' =
                IF key = <<>> THEN confirmed_dois ELSE Append(confirmed_dois, key[1])
           /\ context_counter' = counter_after(context_counter, key # <<>>)
    /\ doi_index' = doi_index + 1
    /\ UNCHANGED <<pc, alpha, top_k, bge_matches, pub_matches, bge_scores, pub_scores,
                   combined_scores, top_dois, all_matches, context>>
    /\ UNCHANGED tail
    /\ UNCHANGED front
    /\ UNCHANGED process

\* line 150: the loop is over, the blocks are joined and returned
ReconcileReturn ==
    /\ pc = "rag_loop"
    /\ doi_index > Len(top_dois)
    /\ context' = join_blocks(context_blocks, Len(context_blocks))
    /\ pc' = "rag_done"
    /\ UNCHANGED <<alpha, top_k, bge_matches, pub_matches, bge_scores, pub_scores,
                   combined_scores, top_dois, all_matches, context_blocks,
                   confirmed_dois, context_counter, doi_index>>
    /\ UNCHANGED tail
    /\ UNCHANGED front
    /\ UNCHANGED process

RagNext == BuildLookup \/ ReconcileStep \/ ReconcileReturn

RagSpec == RagInit /\ [][RagNext]_vars

-----------------------------------------------------------------------------
(* The retrieval, ranking and reconciliation steps of answer_question *)

PipelineDois == {DoiUpper, DoiLower, DoiPadded}
Alphas == {Zero, Frac(1, 2), One}

\* an index answers with its matches ordered from most to least similar
Descending(ms) == \A i \in 1..(Len(ms) - 1) : ms[i].score >= ms[i + 1].score

\* query_pinecone: the answers that hold n matches
QueryAnswers(ix, n) ==
    {ms \in MatchSeqs(ix, n, PipelineDois, MaxScore) : Descending(ms)}

\* top_k caps the length of an answer
AnswerLengths(room) == 0..(IF top_k < room THEN top_k ELSE room)

Init ==
    /\ pc = "query_bge"
    /\ alpha \in Alphas
    /\ top_k \in 1..MaxTopK
    /\ bge_matches = <<>>
    /\ pub_matches = <<>>
    /\ bge_scores = <<>>
    /\ pub_scores = <<>>
    /\ combined_scores = <<>>
    /\ top_dois = <<>>
    /\ all_matches = <<>>
    /\ context_blocks = <<>>
    /\ confirmed_dois = <<>>
    /\ context_counter = 1
    /\ doi_index = 1
    /\ context = EmptyStr
    /\ caller = "answer_question"
    /\ Unassigned

\* line 957
QueryBge ==
    /\ pc = "query_bge"
    /\ \E n \in AnswerLengths(MaxMatches) : bge_matches' \in QueryAnswers("bge", n)
    /\ pc' = "query_pub"
    /\ UNCHANGED <<alpha, top_k, pub_matches, bge_scores, pub_scores, combined_scores,
                   top_dois, all_matches, context_blocks, confirmed_dois,
                   context_counter, doi_index, context>>
    /\ calls' = Append(calls, "query_pinecone")
    /\ UNCHANGED <<caller, transition_message, final_answer, full_response,
                   gene_mentions, gene_summaries, events, result>>
    /\ UNCHANGED front
    /\ UNCHANGED process

\* line 958
QueryPub ==
    /\ pc = "query_pub"
    /\ \E n \in AnswerLengths(MaxMatches - Len(bge_matches)) :
          pub_matches' \in QueryAnswers("pub", n)
    /\ pc' = "normalize_bge"
    /\ UNCHANGED <<alpha, top_k, bge_matches, bge_scores, pub_scores, combined_scores,
                   top_dois, all_matches, context_blocks, confirmed_dois,
                   context_counter, doi_index, context>>
    /\ calls' = Append(calls, "query_pinecone")
    /\ UNCHANGED <<caller, transition_message, final_answer, full_response,
                   gene_mentions, gene_summaries, events, result>>
    /\ UNCHANGED front
    /\ UNCHANGED process

\* line 961
NormalizeBge ==
    /\ pc = "normalize_bge"
    /\ bge_scores' = normalize_scores(bge_matches)
    /\ pc' = "normalize_pub"
    /\ UNCHANGED <<alpha, top_k, bge_matches, pub_matches, pub_scores, combined_scores,
                   top_dois, all_matches, context_blocks, confirmed_dois,
                   context_counter, doi_index, context>>
    /\ UNCHANGED tail
    /\ UNCHANGED front
    /\ UNCHANGED process

\* line 962
NormalizePub ==
    /\ pc = "normalize_pub"
    /\ pub_scores' = normalize_scores(pub_matches)
    /\ pc' = "combine"
    /\ UNCHANGED <<alpha, top_k, bge_matches, pub_matches, bge_scores, combined_scores,
                   top_dois, all_matches, context_blocks, confirmed_dois,
                   context_counter, doi_index, context>>
    /\ UNCHANGED tail
    /\ UNCHANGED front
    /\ UNCHANGED process

\* line 963
Combine ==
    /\ pc = "combine"
    /\ \E order \in IterationOrders(all_sources(bge_scores, pub_scores)) :
          combined_scores' = combine_scores(bge_scores, pub_scores, alpha, order)
    /\ pc' = "rank"
    /\ UNCHANGED <<alpha, top_k, bge_matches, pub_matches, bge_scores, pub_scores,
                   top_dois, all_matches, context_blocks, confirmed_dois,
                   context_counter, doi_index, context>>
    /\ UNCHANGED tail
    /\ UNCHANGED front
    /\ UNCHANGED process

\* lines 965-966
Rank ==
    /\ pc = "rank"
    /\ top_dois' = dictKeys(top_sources(combined_scores, top_k))
    /\ pc' = IF caller \in StreamCallers THEN "papers" ELSE "rag_build"
    /\ UNCHANGED <<alpha, top_k, bge_matches, pub_matches, bge_scores, pub_scores,
                   combined_scores, all_matches, context_blocks, confirmed_dois,
                   context_counter, doi_index, context>>
    /\ UNCHANGED tail
    /\ UNCHANGED front
    /\ UNCHANGED process

Next ==
    \/ QueryBge
    \/ QueryPub
    \/ NormalizeBge
    \/ NormalizePub
    \/ Combine
    \/ Rank
    \/ BuildLookup
    \/ ReconcileStep
    \/ ReconcileReturn

Spec == Init /\ [][Next]_vars

-----------------------------------------------------------------------------
(* combine_scores and the ranking called on their own: the two score maps
   are any maps over a few keys with values in [0, 1] *)

BlendKeys == <<DoiUpper, DoiLower, DoiPadded>>
BlendValues == {Zero, Threshold, One}
BlendAlphas == {Zero, Threshold, Frac(1, 2), One}

\* the score maps that hold n keys, the keys in the order of BlendKeys
ScoreMaps(n) ==
    {[i \in 1..n |->
        [key |-> BlendKeys[CHOOSE x \in S : Cardinality({y \in S : y < x}) = i - 1],
         value |-> v[i]]] :
        S \in {T \in SUBSET (1..Len(BlendKeys)) : Cardinality(T) = n},
        v \in [1..n -> BlendValues]}

BlendInit ==
    /\ pc = "combine"
    /\ alpha \in BlendAlphas
    /\ top_k \in 1..MaxBlendTopK
    /\ bge_matches = <<>>
    /\ pub_matches = <<>>
    /\ \E n \in 0..MaxBlendKeys : bge_scores \in ScoreMaps(n)
    /\ \E n \in 0..MaxBlendKeys : pub_scores \in ScoreMaps(n)
    /\ combined_scores = <<>>
    /\ top_dois = <<>>
    /\ all_matches = <<>>
    /\ context_blocks = <<>>
    /\ confirmed_dois = <<>>
    /\ context_counter = 1
    /\ doi_index = 1
    /\ context = EmptyStr
    /\ caller = "none"
    /\ Unassigned

BlendNext ==
    \/ Combine
    \/ Rank

BlendSpec == BlendInit /\ [][BlendNext]_vars

-----------------------------------------------------------------------------
(* process_genes_batch.  The three lookups live in utils/ncbi_utils; what
   they answer is taken from their contract: map_to_gene_id gives an id or
   nothing, get_gene_summary a text or nothing, get_uniprot_info a record
   {entry, protein_names} or nothing. *)

GeneSymbols == {<<"BRCA1">>, <<"Phvul.001G1">>}

\* what the lookups would answer for one symbol; get_gene_summary has no
\* answer without an id, get_uniprot_info may have one whether or not
\* map_to_gene_id finds the symbol
LookupResults ==
    {[gene_id |-> <<"12345">>, gene_summary |-> t, uniprot_info |-> u] :
        t \in {EmptyStr, <<"gene summary">>},
        u \in {<<>>,
               <<[entry |-> <<"P38398">>, protein_names |-> <<"protein names">>]>>}}
        \cup {[gene_id |-> EmptyStr, gene_summary |-> EmptyStr, uniprot_info |-> u] :
                u \in {<<>>,
                       <<[entry |-> <<"P38398">>, protein_names |-> <<"protein names">>]>>,
                       <<[entry |-> <<"P38398">>, protein_names |-> EmptyStr]>>}}

\* a variant that asks UniProt before the gene-id table
gene_record_uniprot_first(gene, r) ==
    IF r.uniprot_info # <<>>
    THEN LET info == r.uniprot_info[1]
         IN  [name |-> gene,
              summary |-> <<"![UniProt Logo](/images/UniProtLogo.png)\n\n",
                            "**UniProt Protein Database**\n\n">> \o info.protein_names,
              link |-> <<"https://www.uniprot.org/uniprotkb/">> \o info.entry,
              source |-> <<"UniProt Protein Database">>,
              description |-> info.protein_names]
    ELSE IF r.gene_id # EmptyStr
    THEN [name |-> gene,
          summary |-> <<"**NCBI Gene Database**\n\n">> \o r.gene_summary,
          link |-> <<"https://www.ncbi.nlm.nih.gov/gene/">> \o r.gene_id,
          source |-> <<"NCBI Gene Database">>,
          description |-> r.gene_summary]
    ELSE [name |-> gene,
          summary |-> <<"**Literature Mention**\n\nGene identifier: ">> \o gene
                        \o <<"\nSource: Literature mention">>,
          source |-> <<"Literature Mention">>,
          description |-> <<"Gene mentioned in research literature: ">> \o gene,
          not_found |-> TRUE]

\* lines 61-98: the record appended for one symbol
gene_record(gene, r) ==
    IF r.gene_id # EmptyStr
    THEN LET description == IF r.gene_summary # EmptyStr THEN r.gene_summary
                            ELSE <<"Gene ID: ">> \o r.gene_id
         IN  [name |-> gene,
              summary |-> <<"**NCBI Gene Database**\n\n">> \o description,
              link |-> <<"https://www.ncbi.nlm.nih.gov/gene/">> \o r.gene_id,
              source |-> <<"NCBI Gene Database">>,
              description |-> description]
    ELSE IF r.uniprot_info # <<>>
    THEN LET info == r.uniprot_info[1]
             description == IF info.protein_names # EmptyStr THEN info.protein_names
                            ELSE <<"UniProt Entry: ">> \o info.entry
         IN  [name |-> gene,
              summary |-> <<"![UniProt Logo](/images/UniProtLogo.png)\n\n",
                            "**UniProt Protein Database**\n\n">> \o description,
              link |-> <<"https://www.uniprot.org/uniprotkb/">> \o info.entry,
              source |-> <<"UniProt Protein Database">>,
              description |-> description]
    ELSE [name |-> gene,
          summary |-> <<"**Literature Mention**\n\nGene identifier: ">> \o gene
                        \o <<"\nSource: Literature mention">>,
          source |-> <<"Literature Mention">>,
          description |-> <<"Gene mentioned in research literature: ">> \o gene,
          not_found |-> TRUE]

\* a variant of the loop that skips a symbol it has already resolved
RECURSIVE process_genes_loop_skips_repeats(_, _, _)
process_genes_loop_skips_repeats(genes, lookups, n) ==
    IF n = 0 THEN <<>>
    ELSE LET before == process_genes_loop_skips_repeats(genes, lookups, n - 1)
         IN  IF \E i \in 1..(n - 1) : genes[i] = genes[n]
             THEN before
             ELSE Append(before, gene_record(genes[n], lookups[n]))

\* the for loop of line 60 over the first n symbols
RECURSIVE process_genes_loop(_, _, _)
process_genes_loop(genes, lookups, n) ==
    IF n = 0 THEN <<>>
    ELSE Append(process_genes_loop(genes, lookups, n - 1),
                gene_record(genes[n], lookups[n]))

process_genes_batch(genes, lookups) == process_genes_loop(genes, lookups, Len(genes))

\* the symbol lists of length n
RECURSIVE SymbolLists(_)
SymbolLists(n) ==
    IF n = 0 THEN {<<>>}
    ELSE {Append(l, g) : l \in SymbolLists(n - 1), g \in GeneSymbols}

GeneInit ==
    /\ pc = "genes_call"
    /\ caller = "none"
    /\ \E n \in 0..MaxGenes : gene_mentions \in SymbolLists(n)
    /\ alpha = One
    /\ top_k = 1
    /\ bge_matches = <<>>
    /\ pub_matches = <<>>
    /\ bge_scores = <<>>
    /\ pub_scores = <<>>
    /\ combined_scores = <<>>
    /\ top_dois = <<>>
    /\ all_matches = <<>>
    /\ context_blocks = <<>>
    /\ confirmed_dois = <<>>
    /\ context_counter = 1
    /\ doi_index = 1
    /\ context = EmptyStr
    /\ transition_message = EmptyStr
    /\ final_answer = EmptyStr
    /\ full_response = EmptyStr
    /\ gene_summaries = <<>>
    /\ calls = <<>>
    /\ events = <<>>
    /\ result = <<>>
    /\ FrontUnassigned
    /\ ProcessUnassigned

retrieval == <<alpha, top_k, bge_matches, pub_matches, bge_scores, pub_scores,
               combined_scores, top_dois, all_matches, context_blocks,
               confirmed_dois, context_counter, doi_index, context>>

\* lines 55-100: the call returns one record per symbol; the lookups it
\* consults for each symbol (lines 63, 67, 79) are logged with their outcome
ProcessGenes ==
    /\ pc = "genes_call"
    /\ \E lookups \in [1..Len(gene_mentions) -> LookupResults] :
          LET consulted[n \in 0..Len(gene_mentions)] ==
                  IF n = 0 THEN <<>>
                  ELSE consulted[n - 1] \o
                       (IF lookups[n].gene_id # EmptyStr
                        THEN <<"map_to_gene_id:hit",
                               IF lookups[n].gene_summary # EmptyStr
                               THEN "get_gene_summary:hit"
                               ELSE "get_gene_summary:miss">>
                        ELSE <<"map_to_gene_id:miss",
                               IF lookups[n].uniprot_info # <<>>
                               THEN "get_uniprot_info:hit"
                               ELSE "get_uniprot_info:miss">>)
          IN  /\ gene_summaries' = process_genes_batch(gene_mentions, lookups)
              /\ calls' = Append(calls, "process_genes_batch")
                              \o consulted[Len(gene_mentions)]
    /\ pc' = "genes_done"
    /\ UNCHANGED retrieval
    /\ UNCHANGED <<caller, transition_message, final_answer, full_response,
                   gene_mentions, events, result>>
    /\ UNCHANGED front
    /\ UNCHANGED process

\* a lookup fails and the call raises
ProcessGenesRaises ==
    /\ pc = "genes_call"
    /\ gene_mentions # <<>>
    /\ calls' = Append(calls, "process_genes_batch")
    /\ pc' = "genes_raised"
    /\ UNCHANGED retrieval
    /\ UNCHANGED <<caller, transition_message, final_answer, full_response,
                   gene_mentions, gene_summaries, events, result>>
    /\ UNCHANGED front
    /\ UNCHANGED process

GeneNext ==
    \/ ProcessGenes
    \/ ProcessGenesRaises

GeneSpec == GeneInit /\ [][GeneNext]_vars

-----------------------------------------------------------------------------
(* answer_question from the answers of the two indexes to its return *)

NoPapers == <<"No matching papers found in RAG corpus.">>

\* line 930: the transition message that carries the preview of the table
AnalysisTransition(p) ==
    <<"## Dataset Analysis Results\n\n">> \o p
        \o <<"\n\n---\n\n## Related Research Literature\n\n",
             "Searching scientific publications for additional context and insights...\n\n">>

\* lines 937, 795, 804
LiteratureTransition ==
    <<"## Research Literature Search\n\n",
      "Searching scientific publications for relevant information...\n\n">>

\* line 933
NoDataTransition ==
    <<"## Dataset Search Results\n\n",
      "No specific data found in our cultivar performance dataset for this query.",
      "\n\n---\n\n">> \o LiteratureTransition

\* line 942
IssueTransition ==
    <<"## Dataset Search\n\n", "Encountered an issue accessing the cultivar dataset.",
      "\n\n---\n\n">> \o LiteratureTransition

\* what answer_bean_query returns (bean_data.py lines 26, 177, 556, 606): a
\* message alone, or an analysis with its table, with or without a chart
BeanResults ==
    {[preview |-> <<"Bean trial data could not be loaded.">>, full_md |-> EmptyStr,
      chart_data |-> <<>>],
     [preview |-> <<"## Bean Data Analysis\n\n", "table">>,
      full_md |-> <<"## Bean Data Analysis\n\n", "table">>,
      chart_data |-> <<"chart">>],
     [preview |-> <<"## Bean Data Overview\n\n", "table">>,
      full_md |-> <<"## Bean Data Overview\n\n", "table">>,
      chart_data |-> <<>>]}

\* lines 930-948: nothing, or the text that carries the preview and announces
\* the literature search
TransitionMessages ==
    {EmptyStr, AnalysisTransition(<<"## Bean Data Analysis\n\n", "table">>)}

\* response.choices[0].message.content
Completions == {<<WS, "answer [1]", WS>>, EmptyStr}

\* what extract_gene_mentions finds in an answer (utils/ncbi_utils)
ExtractedLists == {<<>>, <<<<"BRCA1">>>>}

\* lines 984-986: the reference lines of the first n identifiers
\* a variant that numbers the references from 0
RECURSIVE reference_lines_zero_based(_, _)
reference_lines_zero_based(dois, n) ==
    IF n = 0 THEN <<>>
    ELSE LET doi == dois[n]
             doi_url == IF doi # <<>> /\ doi[1] \in {HttpPrefix, HttpsPrefix} THEN doi
                        ELSE <<HttpsPrefix>> \o doi
         IN  reference_lines_zero_based(dois, n - 1)
                \o <<"[", ToString(n - 1), "] ">> \o doi \o <<" - ">> \o doi_url \o <<"\n\n">>

RECURSIVE reference_lines(_, _)
reference_lines(dois, n) ==
    IF n = 0 THEN <<>>
    ELSE LET doi == dois[n]
             \* doi.startswith('http')
             doi_url == IF doi # <<>> /\ doi[1] \in {HttpPrefix, HttpsPrefix} THEN doi
                        ELSE <<HttpsPrefix>> \o doi
         IN  reference_lines(dois, n - 1)
                \o <<"[", ToString(n), "] ">> \o doi \o <<" - ">> \o doi_url \o <<"\n\n">>

\* lines 983-986
references_text(dois) ==
    <<"\n\n---\n\n## References\n\n">> \o reference_lines(dois, Len(dois))

BatchInit ==
    /\ pc = "normalize_bge"
    /\ caller = "answer_question"
    /\ alpha \in Alphas
    /\ top_k \in 1..MaxTailMatches
    /\ transition_message \in TransitionMessages
    /\ \E nb \in 0..MaxTailMatches : \E np \in 0..(MaxTailMatches - nb) :
          /\ bge_matches \in {ms \in MatchSeqs("bge", nb, {DoiUpper}, MaxTailScore) :
                                Descending(ms)}
          /\ pub_matches \in {ms \in MatchSeqs("pub", np, {DoiUpper}, MaxTailScore) :
                                Descending(ms)}
    /\ bge_scores = <<>>
    /\ pub_scores = <<>>
    /\ combined_scores = <<>>
    /\ top_dois = <<>>
    /\ all_matches = <<>>
    /\ context_blocks = <<>>
    /\ confirmed_dois = <<>>
    /\ context_counter = 1
    /\ doi_index = 1
    /\ context = EmptyStr
    /\ final_answer = EmptyStr
    /\ full_response = EmptyStr
    /\ gene_mentions = <<>>
    /\ gene_summaries = <<>>
    /\ calls = <<>>
    /\ events = <<>>
    /\ result = <<>>
    /\ FrontUnassigned
    /\ ProcessUnassigned

\* a variant whose fourth element repeats the answer
EmptyContextReturn_repeats_answer ==
    /\ pc = "rag_done"
    /\ caller = "answer_question"
    /\ strip(context) = EmptyStr
    /\ result' = <<[answer |-> NoPapers, sources |-> top_dois,
                    genes |-> <<>>, table |-> NoPapers]>>
    /\ pc' = "returned"
    /\ UNCHANGED retrieval
    /\ UNCHANGED <<caller, transition_message, final_answer, full_response,
                   gene_mentions, gene_summaries, calls, events>>
    /\ UNCHANGED front
    /\ UNCHANGED process

\* lines 970-972: nothing was confirmed
EmptyContextReturn ==
    /\ pc = "rag_done"
    /\ caller = "answer_question"
    /\ strip(context) = EmptyStr
    /\ result' = <<[answer |-> NoPapers, sources |-> top_dois,
                    genes |-> <<>>, table |-> EmptyStr]>>
    /\ pc' = "returned"
    /\ UNCHANGED retrieval
    /\ UNCHANGED <<caller, transition_message, final_answer, full_response,
                   gene_mentions, gene_summaries, calls, events>>
    /\ UNCHANGED front
    /\ UNCHANGED process

\* how many prior turns the caller's conversation history holds
MaxHistory == 2

\* the histories a caller passes in: prior turns of the user and of the
\* assistant in alternation; None and [] are both the empty sequence (line
\* 317 tests the truth value, line 623 replaces None by a new list)
Histories ==
    {[i \in 1..n |-> IF i % 2 = 1
                     THEN [role |-> "user", content |-> <<"earlier question ", ToString(i)>>]
                     ELSE [role |-> "assistant", content |-> <<"earlier answer ", ToString(i)>>]] :
        n \in 0..MaxHistory}

\* the question of the run; line 553 wraps it for the literature follow-up
Question(c) ==
    IF c = "continue_with_research_stream"
    THEN <<"We successfully analyzed the bean data", " for: '", "question",
           "'. Now provide additional research context">>
    ELSE <<"question">>

\* a variant that sends the context before the question
request_messages_context_first(history, question, ctx) ==
    <<[role |-> "system", content |-> <<"system_content">>]>>
        \o (IF history # <<>> THEN history ELSE <<>>)
        \o <<[role |-> "user", content |-> <<"Context:\n">> \o ctx]>>
        \o <<[role |-> "user", content |-> question]>>

\* lines 231-330 and 339-438: the messages of the synthesizer request
request_messages(history, question, ctx) ==
    LET follow_up == \E i \in 1..Len(question) :
                        question[i] = "We successfully analyzed the bean data"
        system_content == IF follow_up THEN <<"system_content after the analysis">>
                          ELSE <<"system_content">>
        \* messages = [system]
        m1 == <<[role |-> "system", content |-> system_content]>>
        \* if conversation_history: messages.extend(conversation_history)
        m2 == IF history # <<>> THEN m1 \o history ELSE m1
        \* messages.append(question)
        m3 == Append(m2, [role |-> "user", content |-> question])
    IN  \* messages.append(context)
        Append(m3, [role |-> "user", content |-> <<"Context:\n">> \o ctx])

\* a variant that appends the question to the caller's list
Synthesize_appends_to_history ==
    /\ pc = "rag_done"
    /\ caller = "answer_question"
    /\ strip(context) # EmptyStr
    /\ calls' = Append(calls, "query_openai")
    /\ conversation_history' =
          Append(conversation_history, [role |-> "user", content |-> Question(caller)])
    /\ messages' = request_messages(conversation_history, Question(caller), context)
    /\ \E content \in Completions :
          final_answer' =
              (IF transition_message # EmptyStr THEN transition_message ELSE EmptyStr)
                  \o strip(content)
                  \o (IF confirmed_dois # <<>> THEN references_text(confirmed_dois)
                      ELSE EmptyStr)
    /\ pc' = "extract"
    /\ UNCHANGED retrieval
    /\ UNCHANGED <<caller, transition_message, full_response, gene_mentions,
                   gene_summaries, events, result>>
    /\ UNCHANGED front
    /\ UNCHANGED <<handles, loads, threads, upstream>>

\* lines 974-987: the answer, the transition message before it and the
\* references after it
Synthesize ==
    /\ pc = "rag_done"
    /\ caller = "answer_question"
    /\ strip(context) # EmptyStr
    /\ calls' = Append(calls, "query_openai")
    /\ \E content \in Completions :
          final_answer' =
              (IF transition_message # EmptyStr THEN transition_message ELSE EmptyStr)
                  \o strip(content)
                  \o (IF confirmed_dois # <<>> THEN references_text(confirmed_dois)
                      ELSE EmptyStr)
    /\ messages' = request_messages(conversation_history, Question(caller), context)
    /\ pc' = "extract"
    /\ UNCHANGED retrieval
    /\ UNCHANGED <<caller, transition_message, full_response, gene_mentions,
                   gene_summaries, events, result>>
    /\ UNCHANGED front
    /\ UNCHANGED <<handles, loads, threads, conversation_history, upstream>>

\* line 974: the completion request fails and answer_question raises
SynthesizeRaises ==
    /\ pc = "rag_done"
    /\ caller = "answer_question"
    /\ strip(context) # EmptyStr
    /\ calls' = Append(calls, "query_openai")
    /\ messages' = request_messages(conversation_history, Question(caller), context)
    /\ pc' = "raised"
    /\ UNCHANGED retrieval
    /\ UNCHANGED <<caller, transition_message, final_answer, full_response,
                   gene_mentions, gene_summaries, events, result>>
    /\ UNCHANGED front
    /\ UNCHANGED <<handles, loads, threads, conversation_history, upstream>>

\* line 992
ExtractGenes ==
    /\ pc = "extract"
    /\ caller = "answer_question"
    /\ calls' = Append(calls, "extract_gene_mentions")
    /\ gene_mentions' \in ExtractedLists
    /\ pc' = "genes_call"
    /\ UNCHANGED retrieval
    /\ UNCHANGED <<caller, transition_message, final_answer, full_response,
                   gene_summaries, events, result>>
    /\ UNCHANGED front
    /\ UNCHANGED process

\* line 992: the extraction raises
ExtractGenesRaises ==
    /\ pc = "extract"
    /\ caller = "answer_question"
    /\ calls' = Append(calls, "extract_gene_mentions")
    /\ pc' = "genes_raised"
    /\ UNCHANGED retrieval
    /\ UNCHANGED <<caller, transition_message, final_answer, full_response,
                   gene_mentions, gene_summaries, events, result>>
    /\ UNCHANGED front
    /\ UNCHANGED process

\* a variant of the except branch that gives up the answer
RecoverAndReturn_drops_answer ==
    /\ pc = "genes_raised"
    /\ caller = "answer_question"
    /\ gene_mentions' = <<>>
    /\ gene_summaries' = <<>>
    /\ result' = <<[answer |-> NoPapers, sources |-> <<>>,
                    genes |-> <<>>, table |-> EmptyStr]>>
    /\ calls' = Append(calls, "print:Gene extraction failed")
    /\ pc' = "returned"
    /\ UNCHANGED retrieval
    /\ UNCHANGED <<caller, transition_message, final_answer, full_response, events>>
    /\ UNCHANGED front
    /\ UNCHANGED process

\* lines 997-1003: the except branch, then the return
RecoverAndReturn ==
    /\ pc = "genes_raised"
    /\ caller = "answer_question"
    /\ gene_mentions' = <<>>
    /\ gene_summaries' = <<>>
    /\ result' = <<[answer |-> final_answer, sources |-> confirmed_dois,
                    genes |-> <<>>, table |-> EmptyStr]>>
    /\ calls' = Append(calls, "print:Gene extraction failed")
    /\ pc' = "returned"
    /\ UNCHANGED retrieval
    /\ UNCHANGED <<caller, transition_message, final_answer, full_response, events>>
    /\ UNCHANGED front
    /\ UNCHANGED process

\* line 1003
ReturnAnswer ==
    /\ pc = "genes_done"
    /\ caller = "answer_question"
    /\ result' = <<[answer |-> final_answer, sources |-> confirmed_dois,
                    genes |-> gene_summaries, table |-> EmptyStr]>>
    /\ pc' = "returned"
    /\ UNCHANGED retrieval
    /\ UNCHANGED <<caller, transition_message, final_answer, full_response,
                   gene_mentions, gene_summaries, calls, events>>
    /\ UNCHANGED front
    /\ UNCHANGED process

BatchNext ==
    \/ NormalizeBge
    \/ NormalizePub
    \/ Combine
    \/ Rank
    \/ BuildLookup
    \/ ReconcileStep
    \/ ReconcileReturn
    \/ EmptyContextReturn
    \/ Synthesize
    \/ SynthesizeRaises
    \/ ExtractGenes
    \/ ExtractGenesRaises
    \/ ProcessGenes
    \/ ProcessGenesRaises
    \/ RecoverAndReturn
    \/ ReturnAnswer

BatchSpec == BatchInit /\ [][BatchNext]_vars

-----------------------------------------------------------------------------
(* answer_question_stream (from line 810) and continue_with_research_stream
   from the answers of the two indexes to the metadata event *)

Progress(step, detail) == [type |-> "progress", data |-> [step |-> step, detail |-> detail]]
Content(chunk) == [type |-> "content", data |-> chunk]
Metadata(sources, genes) ==
    [type |-> "metadata",
     data |-> [sources |-> sources, genes |-> genes, full_markdown_table |-> EmptyStr,
               chart_data |-> <<>>, suggested_questions |-> <<>>]]

\* for char in text: yield content, one event per fragment of the text
Chars(text) == [i \in 1..Len(text) |-> Content(<<text[i]>>)]

\* the events yielded before the indexes are queried (lines 522-533, 810-816)
EventsBeforeSearch(c) ==
    (IF c = "continue_with_research_stream"
     THEN Chars(<<"\n\n---\n\n", "## Related Research Literature", "\n\n">>)
     ELSE <<>>)
        \o <<Progress("embeddings", <<"Processing semantic embeddings">>),
             Progress("search", <<"Searching literature database">>)>>

StreamInit ==
    /\ pc = "normalize_bge"
    /\ caller \in StreamCallers
    /\ alpha = Frac(1, 2)
    /\ top_k = MaxTailMatches
    /\ transition_message = EmptyStr
    \* one index answers with up to MaxTailMatches matches, the other with none
    /\ \E n \in 0..MaxTailMatches : \E ix \in {"bge", "pub"} :
          /\ bge_matches \in {ms \in MatchSeqs("bge", IF ix = "bge" THEN n ELSE 0,
                                                {DoiUpper}, MaxTailScore) :
                                Descending(ms)}
          /\ pub_matches \in {ms \in MatchSeqs("pub", IF ix = "pub" THEN n ELSE 0,
                                                {DoiUpper}, MaxTailScore) :
                                Descending(ms)}
    /\ bge_scores = <<>>
    /\ pub_scores = <<>>
    /\ combined_scores = <<>>
    /\ top_dois = <<>>
    /\ all_matches = <<>>
    /\ context_blocks = <<>>
    /\ confirmed_dois = <<>>
    /\ context_counter = 1
    /\ doi_index = 1
    /\ context = EmptyStr
    /\ final_answer = EmptyStr
    /\ full_response = EmptyStr
    /\ gene_mentions = <<>>
    /\ gene_summaries = <<>>
    /\ calls = <<>>
    /\ events = EventsBeforeSearch(caller)
    /\ result = <<>>
    /\ FrontUnassigned
    /\ ProcessUnassigned

\* lines 545, 828
YieldPapers ==
    /\ pc = "papers"
    /\ events' = Append(events,
          Progress("papers", <<"Found ", ToString(Len(top_dois)), " relevant papers">>))
    /\ pc' = "rag_build"
    /\ UNCHANGED retrieval
    /\ UNCHANGED <<caller, transition_message, final_answer, full_response,
                   gene_mentions, gene_summaries, calls, result>>
    /\ UNCHANGED front
    /\ UNCHANGED process

\* lines 551-558, 834-838: the synthesizer is started on the context
StartGeneration ==
    /\ pc = "rag_done"
    /\ caller \in StreamCallers
    /\ events' = Append(events, Progress("generation", <<"Synthesizing findings with AI">>))
    /\ calls' = Append(calls, "query_openai_stream")
    /\ full_response' = EmptyStr
    /\ messages' = request_messages(conversation_history, Question(caller), context)
    /\ upstream' = "open"
    /\ pc' = "streaming"
    /\ UNCHANGED retrieval
    /\ UNCHANGED <<caller, transition_message, final_answer, gene_mentions,
                   gene_summaries, result>>
    /\ UNCHANGED front
    /\ UNCHANGED <<handles, loads, threads, conversation_history>>

\* a variant that forwards a fragment without collecting it
StreamChunk_not_collected ==
    /\ pc = "streaming"
    /\ Len(full_response) < MaxChunks
    /\ events' = Append(events, Content(<<"answer [1]">>))
    /\ UNCHANGED retrieval
    /\ UNCHANGED <<pc, caller, transition_message, final_answer, full_response,
                   gene_mentions, gene_summaries, calls, result>>
    /\ UNCHANGED front
    /\ UNCHANGED process

\* lines 558-560, 838-840 with 448-450: one fragment of the answer
StreamChunk ==
    /\ pc = "streaming"
    /\ Len(full_response) < MaxChunks
    /\ full_response' = full_response \o <<"answer [1]">>
    /\ events' = Append(events, Content(<<"answer [1]">>))
    /\ UNCHANGED retrieval
    /\ UNCHANGED <<pc, caller, transition_message, final_answer, gene_mentions,
                   gene_summaries, calls, result>>
    /\ UNCHANGED front
    /\ UNCHANGED process

\* a variant without the except branch: the failure leaves the generator
StreamError_raises ==
    /\ pc = "streaming"
    /\ pc' = "raised"
    /\ UNCHANGED retrieval
    /\ UNCHANGED tail
    /\ UNCHANGED front
    /\ UNCHANGED process

\* lines 452-454: the service fails, the error fragment is the last one
StreamError ==
    /\ pc = "streaming"
    /\ full_response' = full_response \o <<"\n\n*Error generating response*\n\n">>
    /\ events' = Append(events, Content(<<"\n\n*Error generating response*\n\n">>))
    /\ upstream' = "closed"
    /\ pc' = "extract"
    /\ UNCHANGED retrieval
    /\ UNCHANGED <<caller, transition_message, final_answer, gene_mentions,
                   gene_summaries, calls, result>>
    /\ UNCHANGED front
    /\ UNCHANGED <<handles, loads, threads, conversation_history, messages>>

\* line 448: the stream of the service ends, its response has been read to
\* the end
StreamEnd ==
    /\ pc = "streaming"
    /\ upstream' = "closed"
    /\ pc' = "extract"
    /\ UNCHANGED retrieval
    /\ UNCHANGED tail
    /\ UNCHANGED front
    /\ UNCHANGED <<handles, loads, threads, conversation_history, messages>>

\* lines 448-450 and 838-840: the caller stops consuming while the generator
\* is suspended at a yield of the loop. Neither generator holds a finally
\* block or closes the response: the stream is closed when the runtime
\* finalizes the generators and the library closes the response on
\* finalization, and stays open otherwise
Abandon ==
    /\ pc = "streaming"
    /\ upstream' \in {"open", "closed"}
    /\ pc' = "abandoned"
    /\ UNCHANGED retrieval
    /\ UNCHANGED tail
    /\ UNCHANGED front
    /\ UNCHANGED <<handles, loads, threads, conversation_history, messages>>

\* a variant that announces the processing of an empty list
ExtractionEvents_always_processing(mentions) ==
    (IF strip(full_response) # EmptyStr
     THEN <<Progress("gene_extraction", <<"Extracting gene mentions from research text">>)>>
     ELSE <<>>)
        \o <<Progress("gene_processing",
                 <<"Processing ", ToString(Len(mentions)), " genetic elements">>)>>

\* the events of lines 564-573, 844-853 once the extraction has answered
ExtractionEvents(mentions) ==
    (IF strip(full_response) # EmptyStr
     THEN <<Progress("gene_extraction", <<"Extracting gene mentions from research text">>)>>
     ELSE <<>>)
        \o (IF mentions # <<>>
            THEN <<Progress("gene_processing",
                       <<"Processing ", ToString(Len(mentions)), " genetic elements">>)>>
            ELSE <<>>)

\* lines 563-574, 843-854: answer_question_stream resolves only a list that
\* is not empty, continue_with_research_stream resolves every list
StreamExtract ==
    /\ pc = "extract"
    /\ caller \in StreamCallers
    /\ calls' = Append(calls, "extract_gene_mentions")
    /\ gene_summaries' = <<>>
    /\ \E mentions \in ExtractedLists :
          /\ gene_mentions' = mentions
          /\ events' = events \o ExtractionEvents(mentions)
          /\ pc' = IF mentions = <<>> /\ caller = "answer_question_stream"
                   THEN "sources" ELSE "genes_call"
    /\ UNCHANGED retrieval
    /\ UNCHANGED <<caller, transition_message, final_answer, full_response, result>>
    /\ UNCHANGED front
    /\ UNCHANGED process

\* the extraction raises
StreamExtractRaises ==
    /\ pc = "extract"
    /\ caller \in StreamCallers
    /\ calls' = Append(calls, "extract_gene_mentions")
    /\ gene_summaries' = <<>>
    /\ events' = events \o ExtractionEvents(<<>>)
    /\ pc' = "genes_raised"
    /\ UNCHANGED retrieval
    /\ UNCHANGED <<caller, transition_message, final_answer, full_response,
                   gene_mentions, result>>
    /\ UNCHANGED front
    /\ UNCHANGED process

\* lines 575-577, 855-857
StreamRecover ==
    /\ pc = "genes_raised"
    /\ caller \in StreamCallers
    /\ gene_summaries' = <<>>
    /\ calls' = Append(calls, "print:Gene extraction failed")
    /\ pc' = "sources"
    /\ UNCHANGED retrieval
    /\ UNCHANGED <<caller, transition_message, final_answer, full_response,
                   gene_mentions, events, result>>
    /\ UNCHANGED front
    /\ UNCHANGED process

\* a variant that sends the metadata before the references
StreamFinish_metadata_first ==
    /\ pc \in {"sources", "genes_done"}
    /\ caller \in StreamCallers
    /\ events' = events
          \o <<Progress("sources", <<"Generating research references and citations">>),
               Progress("finalizing", <<"Completing analysis">>),
               Metadata(confirmed_dois, gene_summaries)>>
          \o (IF caller = "continue_with_research_stream" /\ confirmed_dois # <<>>
              THEN Chars(references_text(confirmed_dois)) ELSE <<>>)
    /\ pc' = "stream_done"
    /\ UNCHANGED retrieval
    /\ UNCHANGED <<caller, transition_message, final_answer, full_response,
                   gene_mentions, gene_summaries, calls, result>>
    /\ UNCHANGED front
    /\ UNCHANGED process

\* a variant that ends without the metadata event
StreamFinish_no_terminal ==
    /\ pc \in {"sources", "genes_done"}
    /\ caller \in StreamCallers
    /\ events' = events
          \o <<Progress("sources", <<"Generating research references and citations">>)>>
          \o (IF caller = "continue_with_research_stream" /\ confirmed_dois # <<>>
              THEN Chars(references_text(confirmed_dois)) ELSE <<>>)
          \o <<Progress("finalizing", <<"Completing analysis">>)>>
    /\ pc' = "stream_done"
    /\ UNCHANGED retrieval
    /\ UNCHANGED <<caller, transition_message, final_answer, full_response,
                   gene_mentions, gene_summaries, calls, result>>
    /\ UNCHANGED front
    /\ UNCHANGED process

\* lines 579-602, 859-873: continue_with_research_stream streams the
\* references, both end with the metadata event
StreamFinish ==
    /\ pc \in {"sources", "genes_done"}
    /\ caller \in StreamCallers
    /\ events' = events
          \o <<Progress("sources", <<"Generating research references and citations">>)>>
          \o (IF caller = "continue_with_research_stream" /\ confirmed_dois # <<>>
              THEN Chars(references_text(confirmed_dois)) ELSE <<>>)
          \o <<Progress("finalizing", <<"Completing analysis">>),
               Metadata(confirmed_dois, gene_summaries)>>
    /\ pc' = "stream_done"
    /\ UNCHANGED retrieval
    /\ UNCHANGED <<caller, transition_message, final_answer, full_response,
                   gene_mentions, gene_summaries, calls, result>>
    /\ UNCHANGED front
    /\ UNCHANGED process

StreamNext ==
    \/ NormalizeBge
    \/ NormalizePub
    \/ Combine
    \/ Rank
    \/ YieldPapers
    \/ BuildLookup
    \/ ReconcileStep
    \/ ReconcileReturn
    \/ StartGeneration
    \/ StreamChunk
    \/ StreamError
    \/ StreamEnd
    \/ Abandon
    \/ StreamExtract
    \/ StreamExtractRaises
    \/ ProcessGenes
    \/ ProcessGenesRaises
    \/ StreamRecover
    \/ StreamFinish

StreamSpec == StreamInit /\ [][StreamNext]_vars

\* the three orchestrators from the answers of the two indexes to their end
TailInit ==
    \/ BatchInit /\ alpha = Frac(1, 2) /\ top_k = MaxTailMatches
    \/ StreamInit

TailSpec == TailInit /\ [][BatchNext \/ StreamNext]_vars

-----------------------------------------------------------------------------
(* The three orchestrators from their start to the answers of the two
   indexes: classification, tabular analysis, the short-circuit of
   answer_question_stream, the two index queries *)

\* response.choices[0].message.content of the classifier, or the request fails
Replies ==
    {[raised |-> FALSE, content |-> t] :
        t \in {<<"true">>, <<"True">>, <<WS, "TRUE", WS>>, <<"false">>,
               <<"true", WS, "false">>, <<"true", ".">>, EmptyStr}}
        \cup {[raised |-> TRUE, content |-> EmptyStr]}

\* a variant that takes a failed classification for a genetics question
is_genetics_question_fails_open(r) ==
    IF r.raised THEN TRUE ELSE lower(strip(r.content)) = <<"true">>

\* lines 202-227
is_genetics_question(r) ==
    IF r.raised THEN FALSE ELSE lower(strip(r.content)) = <<"true">>

\* response.choices[0] of the function-call request (lines 670-677, 911-918)
Choices ==
    {[finish_reason |-> "stop", name |-> ""],
     [finish_reason |-> "function_call", name |-> "query_bean_data"],
     [finish_reason |-> "function_call", name |-> "other_function"]}

\* line 777
BeanComplete(table, chart) ==
    [type |-> "bean_complete",
     data |-> [sources |-> <<>>, genes |-> <<>>, full_markdown_table |-> table,
               chart_data |-> chart, suggested_questions |-> <<>>]]

FrontInit ==
    /\ caller \in {"answer_question"} \cup StreamCallers
    /\ pc = IF caller = "continue_with_research_stream" THEN "embed" ELSE "classify"
    /\ has_bean_keywords \in
          (IF caller = "continue_with_research_stream" THEN {FALSE} ELSE BOOLEAN)
    /\ alpha = Frac(1, 2)
    /\ top_k = 1
    /\ bge_matches = <<>>
    /\ pub_matches = <<>>
    /\ bge_scores = <<>>
    /\ pub_scores = <<>>
    /\ combined_scores = <<>>
    /\ top_dois = <<>>
    /\ all_matches = <<>>
    /\ context_blocks = <<>>
    /\ confirmed_dois = <<>>
    /\ context_counter = 1
    /\ doi_index = 1
    /\ context = EmptyStr
    /\ transition_message = EmptyStr
    /\ final_answer = EmptyStr
    /\ full_response = EmptyStr
    /\ gene_mentions = <<>>
    /\ gene_summaries = <<>>
    /\ calls = <<>>
    /\ events = <<>>
    /\ result = <<>>
    /\ reply = [raised |-> FALSE, content |-> EmptyStr]
    /\ is_genetic = FALSE
    /\ choice = [finish_reason |-> "", name |-> ""]
    /\ preview = EmptyStr
    /\ full_md = EmptyStr
    /\ chart_data = <<>>
    /\ ProcessUnassigned

\* lines 611-635, 876: the classifier is asked; a request that fails is
\* printed and answered with False
Classify ==
    /\ pc = "classify"
    /\ \E r \in Replies :
          /\ reply' = r
          /\ is_genetic' = is_genetics_question(r)
          /\ calls' = Append(calls, "is_genetics_question")
                          \o (IF r.raised THEN <<"print:Error in genetics classification">>
                              ELSE <<>>)
    /\ events' = IF caller = "answer_question_stream"
                 THEN events \o <<Progress("thinking", <<"Thinking...">>),
                                  Progress("analysis", <<"Analyzing question type">>)>>
                             \o (IF is_genetic' THEN <<>>
                                 ELSE <<Progress("dataset", <<"Checking cultivar database">>)>>)
                 ELSE events
    /\ pc' = IF is_genetic' THEN "embed" ELSE "tabular"
    /\ UNCHANGED retrieval
    /\ UNCHANGED <<caller, transition_message, final_answer, full_response,
                   gene_mentions, gene_summaries, result>>
    /\ UNCHANGED <<has_bean_keywords, choice, preview, full_md, chart_data>>
    /\ UNCHANGED process

\* the events of lines 794-799, 802-807
ProceedToLiterature ==
    <<Progress("generation", <<"Proceeding to literature search">>)>>
        \o Chars(<<"\n\n">> \o LiteratureTransition)

\* a variant whose except branch raises again after the print
RequestFunctionCall_reraises ==
    /\ pc = "tabular"
    /\ \/ /\ ~has_bean_keywords
          /\ events' = IF caller = "answer_question_stream"
                       THEN events \o ProceedToLiterature ELSE events
          /\ pc' = "embed"
          /\ UNCHANGED <<calls, choice, transition_message>>
       \/ /\ has_bean_keywords
          /\ \/ \E c \in Choices :
                  /\ calls' = Append(calls, "chat.completions.create:functions")
                  /\ choice' = c
                  /\ transition_message' =
                        IF caller = "answer_question" /\ c.finish_reason # "function_call"
                        THEN LiteratureTransition ELSE transition_message
                  /\ events' =
                        IF caller = "answer_question_stream"
                        THEN IF c.finish_reason = "function_call"
                             THEN Append(events,
                                     Progress("processing", <<"Processing cultivar data">>))
                             ELSE events \o ProceedToLiterature
                        ELSE events
                  /\ pc' = IF c.finish_reason # "function_call" THEN "embed"
                           ELSE IF c.name = "query_bean_data" THEN "bean_query"
                           ELSE "embed"
             \/ /\ calls' = calls \o <<"chat.completions.create:functions">>
                              \o (IF caller = "answer_question"
                                  THEN <<"print:Bean data query failed">> ELSE <<>>)
                /\ transition_message' = IF caller = "answer_question"
                                         THEN IssueTransition ELSE transition_message
                /\ pc' = "raised"
                /\ UNCHANGED <<choice, events>>
    /\ UNCHANGED retrieval
    /\ UNCHANGED <<caller, final_answer, full_response, gene_mentions, gene_summaries,
                   result>>
    /\ UNCHANGED <<reply, is_genetic, has_bean_keywords, preview, full_md, chart_data>>
    /\ UNCHANGED process

\* lines 642-677, 892-918 and 940-945: without a bean keyword the literature
\* search is next; with one the model is asked whether to call the function.
\* answer_question catches a request that fails, answer_question_stream does not
RequestFunctionCall ==
    /\ pc = "tabular"
    /\ \/ /\ ~has_bean_keywords
          /\ events' = IF caller = "answer_question_stream"
                       THEN events \o ProceedToLiterature ELSE events
          /\ pc' = "embed"
          /\ UNCHANGED <<calls, choice, transition_message>>
       \/ /\ has_bean_keywords
          /\ \/ \E c \in Choices :
                  /\ calls' = Append(calls, "chat.completions.create:functions")
                  /\ choice' = c
                  /\ transition_message' =
                        IF caller = "answer_question" /\ c.finish_reason # "function_call"
                        THEN LiteratureTransition ELSE transition_message
                  /\ events' =
                        IF caller = "answer_question_stream"
                        THEN IF c.finish_reason = "function_call"
                             THEN Append(events,
                                     Progress("processing", <<"Processing cultivar data">>))
                             ELSE events \o ProceedToLiterature
                        ELSE events
                  /\ pc' = IF c.finish_reason # "function_call" THEN "embed"
                           ELSE IF c.name = "query_bean_data" THEN "bean_query"
                           ELSE "embed"
             \/ /\ calls' = calls \o <<"chat.completions.create:functions">>
                              \o (IF caller = "answer_question"
                                  THEN <<"print:Bean data query failed">> ELSE <<>>)
                /\ transition_message' = IF caller = "answer_question"
                                         THEN IssueTransition ELSE transition_message
                /\ pc' = IF caller = "answer_question" THEN "embed" ELSE "raised"
                /\ UNCHANGED <<choice, events>>
    /\ UNCHANGED retrieval
    /\ UNCHANGED <<caller, final_answer, full_response, gene_mentions, gene_summaries,
                   result>>
    /\ UNCHANGED <<reply, is_genetic, has_bean_keywords, preview, full_md, chart_data>>
    /\ UNCHANGED process

\* lines 685-695 and 789-792, 922-934 and 940-942: the arguments are parsed
\* and answer_bean_query is called
QueryBeanData ==
    /\ pc = "bean_query"
    /\ \/ \E b \in BeanResults :
             LET \* len(preview)
                 chars[i \in 0..Len(b.preview)] ==
                     IF i = 0 THEN 0
                     ELSE chars[i - 1] +
                          (CASE b.preview[i] = "Bean trial data could not be loaded." -> 36
                             [] b.preview[i] = "## Bean Data Analysis\n\n" -> 23
                             [] b.preview[i] = "## Bean Data Overview\n\n" -> 23
                             [] b.preview[i] = "table" -> 5
                             [] OTHER -> 1)
                 stripped == strip(b.preview)
                 no_matching == /\ stripped # EmptyStr
                                /\ stripped[1] = "## Dataset Query Results\n\nNo matching"
             IN  /\ calls' = Append(calls, "answer_bean_query")
                 /\ preview' = b.preview
                 /\ full_md' = b.full_md
                 /\ chart_data' = b.chart_data
                 /\ transition_message' =
                       IF caller # "answer_question" THEN transition_message
                       ELSE IF b.preview # EmptyStr /\ chars[Len(b.preview)] > 20
                            THEN AnalysisTransition(b.preview)
                            ELSE NoDataTransition
                 /\ events' =
                       IF caller # "answer_question_stream" THEN events
                       ELSE IF b.preview # EmptyStr /\ ~no_matching
                            THEN events \o
                                 <<Progress("dataset_success", <<"Found matching data">>),
                                   Progress("generation", <<"Creating analysis summary">>)>>
                            ELSE Append(events, Progress("fallback",
                                     <<"No data found, searching literature">>))
                 /\ pc' = IF caller = "answer_question_stream"
                             /\ b.preview # EmptyStr /\ ~no_matching
                          THEN "summary" ELSE "embed"
       \/ /\ calls' = calls \o <<"answer_bean_query">>
                        \o (IF caller = "answer_question"
                            THEN <<"print:Bean data query failed">> ELSE <<>>)
          /\ transition_message' = IF caller = "answer_question"
                                   THEN IssueTransition ELSE transition_message
          /\ pc' = IF caller = "answer_question" THEN "embed" ELSE "raised"
          /\ UNCHANGED <<preview, full_md, chart_data, events>>
    /\ UNCHANGED retrieval
    /\ UNCHANGED <<caller, final_answer, full_response, gene_mentions, gene_summaries,
                   result>>
    /\ UNCHANGED <<reply, is_genetic, has_bean_keywords, choice>>
    /\ UNCHANGED process

\* a variant that goes on to the literature search after the summary
Summarize_continues ==
    /\ pc = "summary"
    /\ calls' = Append(calls, "chat.completions.create:summary")
    /\ \E content \in Completions :
          /\ final_answer' = strip(content)
          /\ events' = events \o Chars(strip(content))
                          \o <<BeanComplete(full_md, chart_data)>>
    /\ pc' = "embed"
    /\ UNCHANGED retrieval
    /\ UNCHANGED <<caller, transition_message, full_response, gene_mentions,
                   gene_summaries, result>>
    /\ UNCHANGED front
    /\ UNCHANGED process

\* lines 697-787: the summary of the table is requested and streamed, the
\* bean_complete event ends the run; a request that fails is not caught
Summarize ==
    /\ pc = "summary"
    /\ calls' = Append(calls, "chat.completions.create:summary")
    /\ \/ /\ \E content \in Completions :
                /\ final_answer' = strip(content)
                /\ events' = events \o Chars(strip(content))
                                \o <<BeanComplete(full_md, chart_data)>>
          /\ pc' = "bean_done"
       \/ /\ pc' = "raised"
          /\ UNCHANGED <<final_answer, events>>
    /\ UNCHANGED retrieval
    /\ UNCHANGED <<caller, transition_message, full_response, gene_mentions,
                   gene_summaries, result>>
    /\ UNCHANGED front
    /\ UNCHANGED process

\* lines 522-533, 810-816, 950-955: the question is embedded
StartSearch ==
    /\ pc = "embed"
    /\ events' = IF caller \in StreamCallers THEN events \o EventsBeforeSearch(caller)
                 ELSE events
    /\ pc' = "query_bge"
    /\ UNCHANGED retrieval
    /\ UNCHANGED <<caller, transition_message, final_answer, full_response,
                   gene_mentions, gene_summaries, calls, result>>
    /\ UNCHANGED front
    /\ UNCHANGED process

\* a variant that takes a failed query for an empty answer
QueryRaises_recovered ==
    /\ pc \in {"query_bge", "query_pub"}
    /\ calls' = Append(calls, "query_pinecone:raised")
    /\ pc' = IF pc = "query_bge" THEN "query_pub" ELSE "normalize_bge"
    /\ UNCHANGED retrieval
    /\ UNCHANGED <<caller, transition_message, final_answer, full_response,
                   gene_mentions, gene_summaries, events, result>>
    /\ UNCHANGED front
    /\ UNCHANGED process

\* lines 170-171 called at 535-536, 818-819, 957-958: the index service fails
QueryRaises ==
    /\ pc \in {"query_bge", "query_pub"}
    /\ calls' = Append(calls, "query_pinecone:raised")
    /\ pc' = "raised"
    /\ UNCHANGED retrieval
    /\ UNCHANGED <<caller, transition_message, final_answer, full_response,
                   gene_mentions, gene_summaries, events, result>>
    /\ UNCHANGED front
    /\ UNCHANGED process

FrontNext ==
    \/ Classify
    \/ RequestFunctionCall
    \/ QueryBeanData
    \/ Summarize
    \/ StartSearch
    \/ QueryBge
    \/ QueryPub
    \/ QueryRaises

FrontSpec == FrontInit /\ [][FrontNext]_vars

-----------------------------------------------------------------------------
(* get_models, lines 30-52: the lazily loaded models. The module keeps no
   lock; a caller is a thread that runs the statements of get_models one at
   a time, and the statements of two callers interleave. A handle is 0 for
   None and otherwise the number of the load that made the object. *)

\* how many callers are inside get_models at once
MaxCallers == 2

\* lines 30-33: the globals are None when the module is imported and no model
\* has been loaded; every caller is about to run line 39
ModelsInit ==
    /\ pc = "get_models"
    /\ caller = "none"
    /\ handles = [bge_model |-> 0, tokenizer |-> 0, pub_model |-> 0, device |-> 0]
    /\ loads = [bge_model |-> 0, tokenizer |-> 0, pub_model |-> 0]
    /\ threads = [t \in 1..MaxCallers |-> [pc |-> "check_bge", ret |-> <<>>]]
    /\ conversation_history = <<>>
    /\ messages = <<>>
    /\ upstream = "none"
    /\ alpha = One
    /\ top_k = 1
    /\ bge_matches = <<>>
    /\ pub_matches = <<>>
    /\ bge_scores = <<>>
    /\ pub_scores = <<>>
    /\ combined_scores = <<>>
    /\ top_dois = <<>>
    /\ all_matches = <<>>
    /\ context_blocks = <<>>
    /\ confirmed_dois = <<>>
    /\ context_counter = 1
    /\ doi_index = 1
    /\ context = EmptyStr
    /\ transition_message = EmptyStr
    /\ final_answer = EmptyStr
    /\ full_response = EmptyStr
    /\ gene_mentions = <<>>
    /\ gene_summaries = <<>>
    /\ calls = <<>>
    /\ events = <<>>
    /\ result = <<>>
    /\ FrontUnassigned

\* line 39: if _bge_model is None
CheckBge ==
    /\ pc = "get_models"
    /\ \E t \in 1..MaxCallers :
          /\ threads[t].pc = "check_bge"
          /\ threads' = [threads EXCEPT ![t].pc =
                            IF handles.bge_model = 0 THEN "load_bge" ELSE "check_pub"]
    /\ UNCHANGED <<handles, loads, conversation_history, messages, upstream>>
    /\ UNCHANGED <<pc, retrieval, tail, front>>

\* line 41: _bge_model = SentenceTransformer(settings.bge_model)
LoadBge ==
    /\ pc = "get_models"
    /\ \E t \in 1..MaxCallers :
          /\ threads[t].pc = "load_bge"
          /\ loads' = [loads EXCEPT !.bge_model = @ + 1]
          /\ handles' = [handles EXCEPT !.bge_model = loads.bge_model + 1]
          /\ threads' = [threads EXCEPT ![t].pc = "check_pub"]
    /\ UNCHANGED <<conversation_history, messages, upstream>>
    /\ UNCHANGED <<pc, retrieval, tail, front>>

\* line 44: if _tokenizer is None or _pub_model is None
CheckPub ==
    /\ pc = "get_models"
    /\ \E t \in 1..MaxCallers :
          /\ threads[t].pc = "check_pub"
          /\ threads' = [threads EXCEPT ![t].pc =
                            IF handles.tokenizer = 0 \/ handles.pub_model = 0
                            THEN "load_tokenizer" ELSE "return"]
    /\ UNCHANGED <<handles, loads, conversation_history, messages, upstream>>
    /\ UNCHANGED <<pc, retrieval, tail, front>>

\* line 46: _tokenizer = AutoTokenizer.from_pretrained(...)
LoadTokenizer ==
    /\ pc = "get_models"
    /\ \E t \in 1..MaxCallers :
          /\ threads[t].pc = "load_tokenizer"
          /\ loads' = [loads EXCEPT !.tokenizer = @ + 1]
          /\ handles' = [handles EXCEPT !.tokenizer = loads.tokenizer + 1]
          /\ threads' = [threads EXCEPT ![t].pc = "load_pub"]
    /\ UNCHANGED <<conversation_history, messages, upstream>>
    /\ UNCHANGED <<pc, retrieval, tail, front>>

\* line 47: _pub_model = AutoModel.from_pretrained(...)
LoadPub ==
    /\ pc = "get_models"
    /\ \E t \in 1..MaxCallers :
          /\ threads[t].pc = "load_pub"
          /\ loads' = [loads EXCEPT !.pub_model = @ + 1]
          /\ handles' = [handles EXCEPT !.pub_model = loads.pub_model + 1]
          /\ threads' = [threads EXCEPT ![t].pc = "set_device"]
    /\ UNCHANGED <<conversation_history, messages, upstream>>
    /\ UNCHANGED <<pc, retrieval, tail, front>>

\* lines 48-49: _device = torch.device(...); _pub_model.to(_device).eval()
SetDevice ==
    /\ pc = "get_models"
    /\ \E t \in 1..MaxCallers :
          /\ threads[t].pc = "set_device"
          /\ handles' = [handles EXCEPT !.device = 1]
          /\ threads' = [threads EXCEPT ![t].pc = "return"]
    /\ UNCHANGED <<loads, conversation_history, messages, upstream>>
    /\ UNCHANGED <<pc, retrieval, tail, front>>

\* line 52: return _bge_model, _tokenizer, _pub_model, _device
ReturnModels ==
    /\ pc = "get_models"
    /\ \E t \in 1..MaxCallers :
          /\ threads[t].pc = "return"
          /\ threads' = [threads EXCEPT ![t] = [pc |-> "returned", ret |-> <<handles>>]]
    /\ UNCHANGED <<handles, loads, conversation_history, messages, upstream>>
    /\ UNCHANGED <<pc, retrieval, tail, front>>

ModelsNext ==
    \/ CheckBge
    \/ LoadBge
    \/ CheckPub
    \/ LoadTokenizer
    \/ LoadPub
    \/ SetDevice
    \/ ReturnModels

ModelsSpec == ModelsInit /\ [][ModelsNext]_vars

-----------------------------------------------------------------------------
(* Whole runs of the three orchestrators, from the classification of the
   question to the return or the terminal event, on the caller's history *)

RunInit ==
    /\ caller \in {"answer_question"} \cup StreamCallers
    /\ pc = IF caller = "continue_with_research_stream" THEN "embed" ELSE "classify"
    /\ has_bean_keywords \in
          (IF caller = "continue_with_research_stream" THEN {FALSE} ELSE BOOLEAN)
    /\ conversation_history \in Histories
    /\ alpha = Frac(1, 2)
    /\ top_k = MaxTailMatches
    /\ bge_matches = <<>>
    /\ pub_matches = <<>>
    /\ bge_scores = <<>>
    /\ pub_scores = <<>>
    /\ combined_scores = <<>>
    /\ top_dois = <<>>
    /\ all_matches = <<>>
    /\ context_blocks = <<>>
    /\ confirmed_dois = <<>>
    /\ context_counter = 1
    /\ doi_index = 1
    /\ context = EmptyStr
    /\ transition_message = EmptyStr
    /\ final_answer = EmptyStr
    /\ full_response = EmptyStr
    /\ gene_mentions = <<>>
    /\ gene_summaries = <<>>
    /\ calls = <<>>
    /\ events = <<>>
    /\ result = <<>>
    /\ reply = [raised |-> FALSE, content |-> EmptyStr]
    /\ is_genetic = FALSE
    /\ choice = [finish_reason |-> "", name |-> ""]
    /\ preview = EmptyStr
    /\ full_md = EmptyStr
    /\ chart_data = <<>>
    /\ handles = [bge_model |-> 1, tokenizer |-> 1, pub_model |-> 1, device |-> 1]
    /\ loads = [bge_model |-> 1, tokenizer |-> 1, pub_model |-> 1]
    /\ threads = <<>>
    /\ messages = <<>>
    /\ upstream = "none"

\* the steps of the three orchestrators; the collaborators answer from the
\* narrow end of their sets: the classifier says true, false or nothing, the
\* first index holds no match or two papers, the second up to MaxTailMatches
\* matches of falling scores of which the first is a paper of the first index
RunNext ==
    \/ (Classify /\ reply'.content \in {<<"true">>, <<"false">>, EmptyStr})
    \/ RequestFunctionCall
    \/ QueryBeanData
    \/ Summarize
    \/ StartSearch
    \/ (QueryBge /\ bge_matches' \in
                    {<<>>,
                     <<[id |-> VectorId(1), score |-> 2,
                        metadata |-> [doi |-> DoiLower, summary |-> SummaryOf("bge", 1)]],
                       [id |-> VectorId(2), score |-> 1,
                        metadata |-> [doi |-> DoiUpper, summary |-> SummaryOf("bge", 2)]]>>})
    \/ (QueryPub /\ Len(pub_matches') <= MaxTailMatches
                 /\ \A i \in 1..Len(pub_matches') :
                       /\ pub_matches'[i].score = Len(pub_matches') - i + 1
                       /\ pub_matches'[i].metadata =
                             IF i = 1
                             THEN [doi |-> DoiUpper, summary |-> SummaryOf("pub", i)]
                             ELSE [summary |-> SummaryOf("pub", i)])
    \/ QueryRaises
    \/ NormalizeBge
    \/ NormalizePub
    \/ Combine
    \/ Rank
    \/ YieldPapers
    \/ BuildLookup
    \/ ReconcileStep
    \/ ReconcileReturn
    \/ EmptyContextReturn
    \/ Synthesize
    \/ SynthesizeRaises
    \/ ExtractGenes
    \/ ExtractGenesRaises
    \/ ProcessGenes
    \/ ProcessGenesRaises
    \/ RecoverAndReturn
    \/ ReturnAnswer
    \/ StartGeneration
    \/ StreamChunk
    \/ StreamError
    \/ StreamEnd
    \/ Abandon
    \/ StreamExtract
    \/ StreamExtractRaises
    \/ StreamRecover
    \/ StreamFinish

RunSpec == RunInit /\ [][RunNext]_vars

-----------------------------------------------------------------------------
(* One question put to both conventions: answer_question runs on the answer
   of the indexes, then answer_question_stream runs on the same answer *)

\* the first index answers with up to top_k matches of falling scores, the
\* first two of them papers with an identifier, and the second with none
PairInit ==
    /\ pc = "normalize_bge"
    /\ caller = "answer_question"
    /\ alpha = Frac(1, 2)
    /\ top_k = MaxTailMatches + 1
    /\ transition_message \in TransitionMessages
    /\ \E n \in 0..top_k :
          bge_matches =
             [i \in 1..n |->
                [id |-> VectorId(i), score |-> n - i + 1,
                 metadata |->
                    IF i = 1 THEN [doi |-> DoiUpper, summary |-> SummaryOf("bge", i)]
                    ELSE IF i = 2 THEN [doi |-> DoiLower, summary |-> SummaryOf("bge", i)]
                    ELSE [summary |-> SummaryOf("bge", i)]]]
    /\ pub_matches = <<>>
    /\ bge_scores = <<>>
    /\ pub_scores = <<>>
    /\ combined_scores = <<>>
    /\ top_dois = <<>>
    /\ all_matches = <<>>
    /\ context_blocks = <<>>
    /\ confirmed_dois = <<>>
    /\ context_counter = 1
    /\ doi_index = 1
    /\ context = EmptyStr
    /\ final_answer = EmptyStr
    /\ full_response = EmptyStr
    /\ gene_mentions = <<>>
    /\ gene_summaries = <<>>
    /\ calls = <<>>
    /\ events = <<>>
    /\ result = <<>>
    /\ FrontUnassigned
    /\ ProcessUnassigned

\* lines 809-832 after 950-969: the question that answer_question has
\* answered is put to answer_question_stream; the indexes answer as before
\* and the stream computes its own ranking and context from their answer.
\* The returned answer of answer_question is kept for the comparison.
Replay ==
    /\ pc = "returned"
    /\ caller = "answer_question"
    /\ caller' = "answer_question_stream"
    /\ pc' = "normalize_bge"
    /\ bge_scores' = <<>>
    /\ pub_scores' = <<>>
    /\ combined_scores' = <<>>
    /\ top_dois' = <<>>
    /\ all_matches' = <<>>
    /\ context_blocks' = <<>>
    /\ confirmed_dois' = <<>>
    /\ context_counter' = 1
    /\ doi_index' = 1
    /\ context' = EmptyStr
    /\ full_response' = EmptyStr
    /\ gene_mentions' = <<>>
    /\ gene_summaries' = <<>>
    /\ events' = EventsBeforeSearch("answer_question_stream")
    /\ UNCHANGED <<alpha, top_k, bge_matches, pub_matches>>
    /\ UNCHANGED <<transition_message, final_answer, calls, result>>
    /\ UNCHANGED front
    /\ UNCHANGED process

PairSpec == PairInit /\ [][BatchNext \/ StreamNext \/ Replay]_vars

-----------------------------------------------------------------------------
(* Vocabulary of the properties *)

HasText(md, field) == field \in DOMAIN md /\ md[field] # <<>>

\* a match the reconciler can use: it has a doi and a summary
Usable(m) == HasText(m.metadata, "doi") /\ HasText(m.metadata, "summary")

\* both match sets in the order the reconciler reads them
BothSets == bge_matches \o pub_matches

\* positions of the usable matches whose trimmed doi is k
Carriers(k) ==
    {i \in 1..Len(BothSets) : Usable(BothSets[i]) /\ strip(BothSets[i].metadata.doi) = k}

SetMax(S) == CHOOSE x \in S : \A y \in S : y <= x
SetMin(S) == CHOOSE x \in S : \A y \in S : x <= y

\* a ranked identifier and a dictionary key that the reconciler may pair
ExactPair(ranked, key) == strip(ranked) = key
FuzzyPair(ranked, key) ==
    \/ lower(strip(ranked)) = lower(key)
    \/ strip_doi_url(strip(ranked)) = strip_doi_url(key)

Reconciling == pc \in {"rag_loop", "rag_done"}

\* ranked identifiers the loop has already handled
Handled == 1..(doi_index - 1)

\* the ranked identifier at position j finds a key
Confirmable(j) ==
    \E i \in 1..Len(all_matches) :
        ExactPair(top_dois[j], all_matches[i].key) \/ FuzzyPair(top_dois[j], all_matches[i].key)

-----------------------------------------------------------------------------
(* Properties of get_rag_context_from_pinecone_matches *)

\* C2: citation numbering is dense.  At every point of the loop the k-th
\* emitted block carries index k (from 1), there are as many blocks as
\* confirmed identifiers, the counter is one more than the number of blocks,
\* and a block was emitted only for ranked identifiers that found a key, so
\* an unconfirmed ranked identifier consumes no number.
C2_DenseNumbering ==
    Reconciling =>
        /\ Len(context_blocks) = Len(confirmed_dois)
        /\ context_counter = Len(context_blocks) + 1
        /\ Len(context_blocks) = Cardinality({j \in Handled : Confirmable(j)})
        /\ \A k \in 1..Len(context_blocks) :
              /\ SubSeq(context_blocks[k], 1, 3) = <<"[", ToString(k), "] Source: ">>
              /\ SubSeq(context_blocks[k], 4, 3 + Len(confirmed_dois[k])) = confirmed_dois[k]

\* C2 witness: the call has returned, the first ranked identifier found no
\* key and the second one was emitted as block [1].
C2_Witness ==
    /\ pc = "rag_done"
    /\ Len(top_dois) = 2
    /\ ~Confirmable(1)
    /\ Len(context_blocks) = 1
    /\ context_blocks[1][2] = "1"

\* C3: one iteration of the loop.  The trimmed ranked identifier is tried as
\* an exact key first and is then emitted in that form; otherwise the first
\* key in insertion order that is equal case-insensitively or after removing
\* the doi.org prefixes from both sides is emitted, in the dictionary's form;
\* otherwise nothing is emitted.  At most one block per ranked identifier.
C3_ExactThenFirstFuzzy ==
    [][(pc = "rag_loop" /\ doi_index <= Len(top_dois)) =>
        LET ranked == top_dois[doi_index]
            fuzzy == {i \in 1..Len(all_matches) : FuzzyPair(ranked, all_matches[i].key)}
            emitted(key) ==
                /\ context_blocks' = Append(context_blocks,
                        context_block(context_counter, key, dictValue(all_matches, key)))
                /\ confirmed_dois' = Append(confirmed_dois, key)
        IN  /\ Len(context_blocks') <= Len(context_blocks) + 1
            /\ IF strip(ranked) \in dictKeySet(all_matches)
               THEN emitted(strip(ranked))
               ELSE IF fuzzy # {}
               THEN emitted(all_matches[SetMin(fuzzy)].key)
               ELSE context_blocks' = context_blocks /\ confirmed_dois' = confirmed_dois
    ]_vars

\* C3 witness: the first ranked identifier was no exact key, two keys matched
\* it in the scan, and it was emitted once, under the first key's form, which
\* differs from its own.
C3_Witness ==
    /\ pc = "rag_loop"
    /\ doi_index = 2
    /\ strip(top_dois[1]) \notin dictKeySet(all_matches)
    /\ Cardinality({i \in 1..Len(all_matches) : FuzzyPair(top_dois[1], all_matches[i].key)}) = 2
    /\ confirmed_dois = <<all_matches[1].key>>

\* C4: a source is confirmed only if it is found in the metadata.  Every
\* confirmed identifier is the trimmed doi of a match, of either set, that has
\* a doi and a non-empty summary, and it pairs with a ranked identifier
\* already handled: exactly after trimming, case-insensitively, or after
\* removing the doi.org prefix from both.
C4_ConfirmedOnlyFromMetadata ==
    Reconciling =>
        \A k \in 1..Len(confirmed_dois) :
            /\ Carriers(confirmed_dois[k]) # {}
            /\ \E j \in Handled :
                  ExactPair(top_dois[j], confirmed_dois[k]) \/ FuzzyPair(top_dois[j], confirmed_dois[k])

\* C4 witness: the call has returned with a confirmed identifier while one of
\* the matches carries a doi without a usable summary.
C4_Witness ==
    /\ pc = "rag_done"
    /\ confirmed_dois # <<>>
    /\ \E i \in 1..Len(BothSets) :
          HasText(BothSets[i].metadata, "doi") /\ ~HasText(BothSets[i].metadata, "summary")

\* positions of the ranked identifiers that find a key, in rank order
RECURSIVE ConfirmablePositions(_)
ConfirmablePositions(n) ==
    IF n = 0 THEN <<>>
    ELSE IF Confirmable(n) THEN Append(ConfirmablePositions(n - 1), n)
    ELSE ConfirmablePositions(n - 1)

\* C5: confirmed sources preserve rank order.  The k-th confirmed identifier
\* is the one produced by the k-th ranked identifier that finds a key, and
\* running the loop on the ranked list without its unconfirmed identifiers
\* yields the same confirmed list and the same numbered blocks.
C5_RankOrderPreserved ==
    pc = "rag_done" =>
        LET from == ConfirmablePositions(Len(top_dois))
            kept == [k \in 1..Len(from) |-> top_dois[from[k]]]
            again == rag_loop(all_matches, kept, Len(kept))
        IN  /\ Len(confirmed_dois) = Len(from)
            /\ \A k \in 1..Len(from) :
                  \/ ExactPair(top_dois[from[k]], confirmed_dois[k])
                  \/ FuzzyPair(top_dois[from[k]], confirmed_dois[k])
            /\ again.confirmed = confirmed_dois
            /\ again.blocks = context_blocks

\* C5 witness: the call has returned, an unconfirmed ranked identifier
\* precedes a confirmed one.
C5_Witness ==
    /\ pc = "rag_done"
    /\ Len(top_dois) = 2
    /\ ~Confirmable(1)
    /\ Confirmable(2)
    /\ Len(confirmed_dois) = 1
    /\ top_dois[1] # top_dois[2]

\* C6: the lookup dictionary.  Its keys are exactly the trimmed dois of the
\* matches that have both a doi and a summary; each key's summary is that of
\* the last such match, the second (PubMedBERT) set being read after the
\* first; and that summary is the one in the context block.
C6_LookupLastWriteWins ==
    Reconciling =>
        /\ dictKeySet(all_matches) =
              {strip(BothSets[i].metadata.doi) : i \in {j \in 1..Len(BothSets) : Usable(BothSets[j])}}
        /\ \A i \in 1..Len(all_matches) :
              all_matches[i].value = BothSets[SetMax(Carriers(all_matches[i].key))].metadata.summary
        /\ \A k \in 1..Len(context_blocks) :
              context_blocks[k] =
                  context_block(k, confirmed_dois[k],
                      BothSets[SetMax(Carriers(confirmed_dois[k]))].metadata.summary)

\* C6 witness: both sets hold a usable match with the same trimmed doi, one of
\* them written with surrounding whitespace, and the block of that source
\* carries the second set's summary.
C6_Witness ==
    /\ pc = "rag_done"
    /\ Len(bge_matches) = 1
    /\ Len(pub_matches) = 1
    /\ Usable(bge_matches[1])
    /\ Usable(pub_matches[1])
    /\ bge_matches[1].metadata.doi # pub_matches[1].metadata.doi
    /\ strip(bge_matches[1].metadata.doi) = strip(pub_matches[1].metadata.doi)
    /\ Len(context_blocks) >= 1
    /\ context_blocks[1] =
          context_block(1, strip(pub_matches[1].metadata.doi), pub_matches[1].metadata.summary)

-----------------------------------------------------------------------------
(* Properties of normalize_scores *)

Normalized == pc = "norm_done"

RawScores == {bge_matches[i].score : i \in 1..Len(bge_matches)}

\* C7: the degenerate cases.  An empty match sequence gives the empty map;
\* a sequence whose raw scores are all equal (a single match included) gives
\* a map, with an entry for it, in which every score is exactly 0.
C7_EqualScoresGiveZero ==
    (Normalized /\ Cardinality(RawScores) <= 1) =>
        /\ (bge_scores = <<>>) <=> (bge_matches = <<>>)
        /\ \A i \in 1..Len(bge_scores) : bge_scores[i].value = Zero

\* C7 witness: two matches with different identifiers and equal raw scores
\* have been normalized.
C7_Witness ==
    /\ Normalized
    /\ Len(bge_matches) = 2
    /\ Cardinality(RawScores) = 1
    /\ Len(bge_scores) = 2

\* C8: min-max scaling.  When the raw scores are not all equal, the map's
\* entry for the match at each position is (score - min) / (max - min) of
\* that match, so it lies in [0,1], the maximum raw score maps to 1 and the
\* minimum to 0, also when several matches share one identifier.
C8_MinMaxByPosition ==
    (Normalized /\ Cardinality(RawScores) >= 2) =>
        \A i \in 1..Len(bge_matches) :
            LET v == dictValue(bge_scores, match_key(bge_matches[i]))
            IN  /\ FracLeq(Zero, v)
                /\ FracLeq(v, One)
                /\ v = Frac(bge_matches[i].score - SetMin(RawScores),
                            SetMax(RawScores) - SetMin(RawScores))

\* C9: identifier precedence.  A match is keyed by its metadata doi when that
\* field is present and non-empty and by its own id in every other case.
C9_DoiElseId ==
    Normalized =>
        dictKeySet(bge_scores) =
            {IF HasText(bge_matches[i].metadata, "doi")
                THEN bge_matches[i].metadata.doi
                ELSE bge_matches[i].id : i \in 1..Len(bge_matches)}

\* C10: every key that comes from a metadata doi is the trimmed doi, so that
\* dois differing only in surrounding whitespace share one key.
C10_KeysAreTrimmed ==
    Normalized =>
        /\ \A i \in 1..Len(bge_matches) :
              HasText(bge_matches[i].metadata, "doi") =>
                  strip(bge_matches[i].metadata.doi) \in dictKeySet(bge_scores)
        /\ \A k \in dictKeySet(bge_scores) : strip(k) = k

-----------------------------------------------------------------------------
(* Properties of the pipeline *)

\* C1: a ranked identifier that is verbatim the doi of a match with a summary
\* is confirmed, and its source appears exactly once in the confirmed list
\* (and so in exactly one context block), whatever variants of it in case,
\* whitespace or URL prefix the match sets and the ranked list hold.
C1_VerbatimConfirmedOnce ==
    pc = "rag_done" =>
        \A j \in 1..Len(top_dois) :
            (\E i \in 1..Len(BothSets) :
                Usable(BothSets[i]) /\ BothSets[i].metadata.doi = top_dois[j])
            => /\ Len(context_blocks) = Len(confirmed_dois)
               /\ Cardinality({k \in 1..Len(confirmed_dois) :
                                 confirmed_dois[k] = strip(top_dois[j])}) = 1

-----------------------------------------------------------------------------
(* combine_scores *)

\* a dict as the set of its (key, value) pairs
AsMap(d) == {<<d[i].key, d[i].value>> : i \in 1..Len(d)}
KeysDistinct(d) == Cardinality(dictKeySet(d)) = Len(d)
Blended == pc \in {"rank", "rag_build"}

\* numerator and denominator of alpha * A.get(k, 0) + (1 - alpha) * B.get(k, 0)
BlendNum(k) ==
    LET x == dictGet(bge_scores, k, Zero)
        y == dictGet(pub_scores, k, Zero)
    IN  alpha[1] * x[1] * y[2] + (alpha[2] - alpha[1]) * y[1] * x[2]
BlendDen(k) ==
    alpha[2] * dictGet(bge_scores, k, Zero)[2] * dictGet(pub_scores, k, Zero)[2]

\* C11: the result of combine_scores holds exactly the identifiers of the union
\* of the two maps whose blended score alpha*A.get(id,0) + (1-alpha)*B.get(id,0)
\* is strictly greater than 0.05, each once and with that score; an identifier
\* whose blended score is 0.05 or less is absent.
C11_ThresholdedBlend ==
    Blended =>
        /\ KeysDistinct(combined_scores)
        /\ AsMap(combined_scores) =
              {<<k, Frac(BlendNum(k), BlendDen(k))>> :
                  k \in {u \in all_sources(bge_scores, pub_scores) :
                            20 * BlendNum(u) > BlendDen(u)}}

\* a source blended to exactly 0.05 was dropped next to one that was kept
C11_Witness ==
    /\ Blended
    /\ combined_scores # <<>>
    /\ \E k \in all_sources(bge_scores, pub_scores) :
          /\ 20 * BlendNum(k) = BlendDen(k)
          /\ ~dictHas(combined_scores, k)

InUnit(x) == 0 <= x[1] /\ x[1] <= x[2]
InputsInUnit ==
    /\ InUnit(alpha)
    /\ \A i \in 1..Len(bge_scores) : InUnit(bge_scores[i].value)
    /\ \A i \in 1..Len(pub_scores) : InUnit(pub_scores[i].value)

\* C12: when every value of the two input maps and alpha lie in [0, 1], every
\* value of the result of combine_scores lies in [0, 1], and in fact in
\* (0.05, 1].
C12_BlendedInUnitInterval ==
    (Blended /\ InputsInUnit) =>
        \A i \in 1..Len(combined_scores) :
            LET v == combined_scores[i].value
            IN  20 * v[1] > v[2] /\ v[1] <= v[2]

\* both maps score one source, alpha weighs both, and the results include
\* the value 1 and a value strictly inside the interval
C12_Witness ==
    /\ Blended
    /\ InputsInUnit
    /\ 0 < alpha[1] /\ alpha[1] < alpha[2]
    /\ \E k \in dictKeySet(bge_scores) \cap dictKeySet(pub_scores) :
          dictHas(combined_scores, k) /\ dictValue(combined_scores, k) = One
    /\ \E i \in 1..Len(combined_scores) :
          combined_scores[i].value[1] < combined_scores[i].value[2]

\* the entries of a dict whose score is strictly greater than the threshold
AboveThreshold(d) == {e \in AsMap(d) : 20 * e[2][1] > e[2][2]}

\* C13 as stated: combine_scores(A, B, 1.0) has the keys and scores of A, and
\* combine_scores(A, B, 0.0) has the keys and scores of B.
C13_ExtremeAlphaIsOneMap ==
    Blended =>
        /\ alpha = One => AsMap(combined_scores) = AsMap(bge_scores)
        /\ alpha = Zero => AsMap(combined_scores) = AsMap(pub_scores)

\* C13 amended: combine_scores(A, B, 1.0) has the keys and scores of the
\* entries of A whose score is strictly greater than 0.05, and
\* combine_scores(A, B, 0.0) those of the entries of B whose score is
\* strictly greater than 0.05.
C13_ExtremeAlphaIsOneMapAboveThreshold ==
    Blended =>
        /\ alpha = One => AsMap(combined_scores) = AboveThreshold(bge_scores)
        /\ alpha = Zero => AsMap(combined_scores) = AboveThreshold(pub_scores)

\* alpha is 1, A holds an entry above and an entry not above the threshold,
\* and B scores a source that A does not hold
C13_Witness ==
    /\ Blended
    /\ alpha = One
    /\ combined_scores # <<>>
    /\ AboveThreshold(bge_scores) # AsMap(bge_scores)
    /\ \E k \in dictKeySet(pub_scores) \ dictKeySet(bge_scores) :
          dictValue(pub_scores, k) = One

\* C14: at alpha = 0.5 combine_scores is symmetric: combine_scores(B, A, 0.5),
\* in whatever order its sources are iterated, has the keys of
\* combine_scores(A, B, 0.5) and the same score for each key.
C14_SymmetricAtHalf ==
    (Blended /\ alpha = Frac(1, 2)) =>
        \A order \in IterationOrders(all_sources(pub_scores, bge_scores)) :
            AsMap(combine_scores(pub_scores, bge_scores, alpha, order))
                = AsMap(combined_scores)

\* alpha is 0.5, a source is scored by A alone and kept, and A and B differ
C14_Witness ==
    /\ Blended
    /\ alpha = Frac(1, 2)
    /\ AsMap(bge_scores) # AsMap(pub_scores)
    /\ pub_scores # <<>>
    /\ \E k \in dictKeySet(bge_scores) \ dictKeySet(pub_scores) :
          dictHas(combined_scores, k)

\* C15: combine_scores is idempotent on its results: for the result C of a
\* call, combine_scores(C, C, 1), in whatever order its sources are iterated,
\* has the keys and the scores of C.
C15_IdempotentOnResults ==
    Blended =>
        \A order \in IterationOrders(all_sources(combined_scores, combined_scores)) :
            AsMap(combine_scores(combined_scores, combined_scores, One, order))
                = AsMap(combined_scores)

\* a result of two entries with different scores, blended from both maps
C15_Witness ==
    /\ Blended
    /\ 0 < alpha[1] /\ alpha[1] < alpha[2]
    /\ Len(combined_scores) >= 2
    /\ \E i, j \in 1..Len(combined_scores) :
          combined_scores[i].value # combined_scores[j].value

-----------------------------------------------------------------------------
(* the ranked list *)

Ranked == pc = "rag_build"
Greater(x, y) == x[1] * y[2] > y[1] * x[2]
PositionIn(d, k) == CHOOSE i \in 1..Len(d) : d[i].key = k
Included == {top_dois[i] : i \in 1..Len(top_dois)}

\* C16: the ranked list is the blended map's entries sorted by score in
\* non-increasing order and cut to top_k: its length is the smaller of top_k
\* and the number of blended entries, its members are distinct keys of the
\* blended map, no excluded source scores more than an included one, and
\* sources of equal score keep the order they have in the blended map.
C16_RankedSortedTruncatedStable ==
    Ranked =>
        LET n == Len(combined_scores)
            score(k) == dictValue(combined_scores, k)
            pos(k) == PositionIn(combined_scores, k)
        IN  /\ Len(top_dois) = (IF top_k < n THEN top_k ELSE n)
            /\ Included \subseteq dictKeySet(combined_scores)
            /\ Cardinality(Included) = Len(top_dois)
            /\ \A i, j \in 1..Len(top_dois) :
                  i < j =>
                      /\ ~Greater(score(top_dois[j]), score(top_dois[i]))
                      /\ score(top_dois[i]) = score(top_dois[j])
                            => pos(top_dois[i]) < pos(top_dois[j])
            /\ \A e \in dictKeySet(combined_scores) \ Included :
                  \A t \in Included :
                      /\ ~Greater(score(e), score(t))
                      /\ score(e) = score(t) => pos(t) < pos(e)

\* three blended entries cut to two, a tie inside the list and a tie across
\* the cut, with an entry of greater score later in the blended map
C16_Witness ==
    /\ Ranked
    /\ Len(combined_scores) = 3
    /\ Len(top_dois) = 2
    /\ \E e \in dictKeySet(combined_scores) \ Included :
          dictValue(combined_scores, e) = dictValue(combined_scores, top_dois[2])
    /\ Greater(dictValue(combined_scores, top_dois[1]),
               dictValue(combined_scores, top_dois[2]))
    /\ PositionIn(combined_scores, top_dois[1]) > 1

-----------------------------------------------------------------------------
(* process_genes_batch *)

\* C20: process_genes_batch never drops, merges or reorders its input: the
\* list it returns has the length of the input list and its i-th record has
\* the i-th input symbol as name, so a repeated symbol yields repeated records.
C20_OneRecordPerSymbolInOrder ==
    (caller = "none" /\ pc = "genes_done") =>
        /\ Len(gene_summaries) = Len(gene_mentions)
        /\ \A i \in 1..Len(gene_mentions) : gene_summaries[i].name = gene_mentions[i]

\* a list with a repeated symbol and another symbol between the repeats,
\* resolved by a database for one record and by no database for another
C20_Witness ==
    /\ caller = "none"
    /\ pc = "genes_done"
    /\ Len(gene_mentions) = 3
    /\ gene_mentions[1] = gene_mentions[3]
    /\ gene_mentions[1] # gene_mentions[2]
    /\ "link" \in DOMAIN gene_summaries[1]
    /\ "not_found" \in DOMAIN gene_summaries[3]

-----------------------------------------------------------------------------
(* answer_question after the reconciler *)

EqualRaw(ms) == \A i, j \in 1..Len(ms) : ms[i].score = ms[j].score
ScenarioA == EqualRaw(bge_matches) /\ EqualRaw(pub_matches)
AllZero(d) == \A i \in 1..Len(d) : d[i].value = Zero
Fallback(r) == r.answer = NoPapers

\* C17: when each match set holds a single match, or only matches of equal
\* raw score, every normalized score is 0, so every blended score is 0 and
\* is dropped, the ranked list is empty, nothing is confirmed, and
\* answer_question returns the "no matching papers" answer; the synthesizer
\* is never called.
C17_EqualScoresEndInFallback ==
    ScenarioA =>
        /\ pc \notin {"normalize_bge"} => AllZero(bge_scores)
        /\ pc \notin {"normalize_bge", "normalize_pub"} => AllZero(pub_scores)
        /\ combined_scores = <<>>
        /\ top_dois = <<>>
        /\ confirmed_dois = <<>>
        /\ strip(context) = EmptyStr
        /\ calls = <<>>
        /\ pc \in {"normalize_bge", "normalize_pub", "combine", "rank", "rag_build",
                   "rag_loop", "rag_done", "returned"}
        /\ pc = "returned" => Len(result) = 1 /\ Fallback(result[1])

\* both indexes answered with one match that carries a doi and a summary,
\* and answer_question has returned
C17_Witness ==
    /\ pc = "returned"
    /\ Len(bge_matches) = 1
    /\ Len(pub_matches) = 1
    /\ HasText(bge_matches[1].metadata, "doi")
    /\ HasText(bge_matches[1].metadata, "summary")
    /\ HasText(pub_matches[1].metadata, "doi")
    /\ HasText(pub_matches[1].metadata, "summary")
    /\ Fallback(result[1])

-----------------------------------------------------------------------------
(* the streaming orchestrators after the reconciler *)

Reconciled ==
    pc \in {"rag_done", "streaming", "extract", "genes_call", "genes_done",
            "genes_raised", "sources", "stream_done"}

\* C19: whenever the reconciler confirms no source, a streaming orchestrator
\* does not call the synthesizer on the empty context; it delivers the canned
\* "no matching papers" answer as content and ends with a metadata event
\* whose sources and genes are empty.
C19_StreamNothingConfirmedIsCanned ==
    (caller \in StreamCallers /\ Reconciled /\ confirmed_dois = <<>>) =>
        /\ \A i \in 1..Len(calls) : calls[i] # "query_openai_stream"
        /\ pc = "stream_done" =>
              /\ \E i \in 1..Len(events) :
                    events[i].type = "content" /\ events[i].data = NoPapers
              /\ events[Len(events)].type = "metadata"
              /\ events[Len(events)].data.sources = <<>>
              /\ events[Len(events)].data.genes = <<>>

\* ---- C21 ----
\* the lookups logged for the i-th symbol of the call
LookupsOf(i) == <<calls[2 * i], calls[2 * i + 1]>>

\* C21: each record of process_genes_batch comes from the first tier that
\* answers: a gene-id hit gives an NCBI record and UniProt is not asked, a
\* gene-id miss with a UniProt hit gives a UniProt record, two misses give a
\* Literature Mention; not_found is present (and true) exactly on Literature
\* Mention records and link exactly on the other two
C21_FirstTierThatAnswersWins ==
    (pc = "genes_done" /\ caller = "none") =>
        \A i \in 1..Len(gene_summaries) :
            LET r == gene_summaries[i]
                first == LookupsOf(i)[1]
                second == LookupsOf(i)[2]
            IN  /\ r.source \in {<<"NCBI Gene Database">>,
                                  <<"UniProt Protein Database">>,
                                  <<"Literature Mention">>}
                /\ first \in {"map_to_gene_id:hit", "map_to_gene_id:miss"}
                /\ (first = "map_to_gene_id:hit") <=>
                       (r.source = <<"NCBI Gene Database">>)
                /\ (first = "map_to_gene_id:hit") =>
                       second \in {"get_gene_summary:hit", "get_gene_summary:miss"}
                /\ (first = "map_to_gene_id:miss" /\ second = "get_uniprot_info:hit") <=>
                       (r.source = <<"UniProt Protein Database">>)
                /\ (first = "map_to_gene_id:miss" /\ second = "get_uniprot_info:miss") <=>
                       (r.source = <<"Literature Mention">>)
                /\ ("not_found" \in DOMAIN r) <=> (r.source = <<"Literature Mention">>)
                /\ ("not_found" \in DOMAIN r) => r.not_found
                /\ ("link" \in DOMAIN r) <=> (r.source # <<"Literature Mention">>)

C21_Witness ==
    /\ pc = "genes_done"
    /\ caller = "none"
    /\ Len(gene_summaries) = 3
    /\ gene_summaries[1].source = <<"NCBI Gene Database">>
    /\ gene_summaries[2].source = <<"UniProt Protein Database">>
    /\ gene_summaries[3].source = <<"Literature Mention">>
    /\ C21_FirstTierThatAnswersWins

\* ---- C22 ----
IsMetadata(e) == e.type = "metadata"
IsContent(e) == e.type = "content"

\* C22: in answer_question_stream and continue_with_research_stream no
\* content event follows the metadata event
C22_NoContentAfterMetadata ==
    caller \in StreamCallers =>
        \A i \in 1..Len(events) : \A j \in (i + 1)..Len(events) :
            IsMetadata(events[i]) => ~IsContent(events[j])

C22_Witness ==
    /\ caller = "continue_with_research_stream"
    /\ pc = "stream_done"
    /\ confirmed_dois # <<>>
    /\ full_response # EmptyStr
    /\ IsMetadata(events[Len(events)])
    /\ IsContent(events[Len(events) - 2])

\* ---- C23 ----
IsStep(e, step) == e.type = "progress" /\ e.data.step = step

\* the synthesizer fragments forwarded so far: the data of the content
\* events after "Synthesizing findings with AI" and before the "sources" step
Forwarded ==
    LET starts == {i \in 1..Len(events) :
                      /\ IsStep(events[i], "generation")
                      /\ events[i].data.detail = <<"Synthesizing findings with AI">>}
        stops == {i \in 1..Len(events) : IsStep(events[i], "sources")}
        from == IF starts = {} THEN Len(events) + 1
                ELSE CHOOSE i \in starts : \A k \in starts : i <= k
        to == IF stops = {} THEN Len(events)
              ELSE (CHOOSE i \in stops : \A k \in stops : i <= k) - 1
        cat[i \in 0..Len(events)] ==
            IF i = 0 THEN EmptyStr
            ELSE IF i > from /\ i <= to /\ IsContent(events[i])
                 THEN cat[i - 1] \o events[i].data
                 ELSE cat[i - 1]
    IN  cat[Len(events)]

Called(name) == \E i \in 1..Len(calls) : calls[i] = name

\* C23: in both streaming orchestrators extract_gene_mentions starts only
\* when the synthesizer stream is over, the text it is handed (full_response)
\* is the concatenation of the fragments forwarded as content, and no
\* fragment is forwarded once it has started
C23_ExtractionAfterLastFragment ==
    (caller \in StreamCallers /\ Called("extract_gene_mentions")) =>
        /\ pc # "streaming"
        /\ Called("query_openai_stream")
        /\ Forwarded = full_response

C23_Witness ==
    /\ caller \in StreamCallers
    /\ Called("extract_gene_mentions")
    /\ Len(full_response) = MaxChunks
    /\ Forwarded = full_response
    /\ pc = "stream_done"

\* ---- C24 ----
ErrorFragment == "\n\n*Error generating response*\n\n"
Failed == \E i \in 1..Len(full_response) : full_response[i] = ErrorFragment

\* C24: when the completion service fails at the start of the stream or in
\* the middle of it, the fragments received before are forwarded, exactly one
\* error fragment follows them and is the last one, nothing is raised to the
\* caller of the orchestrator, the run can always go on until it is done,
\* and it is done with the metadata event as its last event
C24_StreamFailureIsInline ==
    caller \in StreamCallers =>
        /\ pc # "raised"
        /\ Failed =>
              /\ pc # "streaming"
              /\ full_response[Len(full_response)] = ErrorFragment
              /\ \A i \in 1..(Len(full_response) - 1) : full_response[i] # ErrorFragment
              /\ Forwarded = full_response
              /\ pc # "stream_done" => ENABLED StreamNext
              /\ pc = "stream_done" => IsMetadata(events[Len(events)])

C24_Witness ==
    /\ caller = "answer_question_stream"
    /\ Failed
    /\ Len(full_response) = 2
    /\ pc = "stream_done"
    /\ IsMetadata(events[Len(events)])

\* ---- C25 ----
ExtractionFailed == Called("print:Gene extraction failed")

\* C25: when extract_gene_mentions or process_genes_batch fails, nothing is
\* raised, the gene list is empty, answer_question returns the answer it had
\* built and the confirmed sources, and the streaming orchestrators keep the
\* content already sent and end with the metadata event carrying the sources
C25_ExtractionFailureIsAbsorbed ==
    /\ pc = "genes_raised" => ENABLED (BatchNext \/ StreamNext)
    /\ ExtractionFailed =>
          /\ pc # "raised"
          /\ gene_summaries = <<>>
          /\ (caller = "answer_question") =>
                /\ pc = "returned"
                /\ result = <<[answer |-> final_answer, sources |-> confirmed_dois,
                               genes |-> <<>>, table |-> EmptyStr]>>
                /\ \E content \in Completions :
                      final_answer = transition_message \o strip(content)
                          \o (IF confirmed_dois # <<>>
                              THEN references_text(confirmed_dois) ELSE EmptyStr)
          /\ (caller \in StreamCallers) =>
                /\ Forwarded = full_response
                /\ pc = "stream_done" =>
                      events[Len(events)] = Metadata(confirmed_dois, <<>>)

C25_Witness ==
    /\ ExtractionFailed
    /\ caller = "answer_question"
    /\ pc = "returned"
    /\ transition_message # EmptyStr
    /\ result[1].answer = final_answer
    /\ result[1].sources # <<>>

C25_StreamWitness ==
    /\ ExtractionFailed
    /\ caller \in StreamCallers
    /\ pc = "stream_done"
    /\ confirmed_dois # <<>>
    /\ full_response # EmptyStr

\* ---- C26 ----
ClassifierFailed == Called("print:Error in genetics classification")

\* the reply is the word true in any case, with nothing but blanks around it
SaysTrue(text) ==
    \E i \in 1..Len(text) :
        /\ text[i] \in {"true", "True", "TRUE"}
        /\ \A j \in 1..Len(text) : j # i => text[j] = WS

\* C26: a classifier request that fails makes is_genetics_question answer
\* false, nothing is raised and the orchestrator takes the branch of a
\* question that is not about genetics (the dataset step of the stream, the
\* function-call request when the question holds a bean keyword); the answer
\* is true only for a reply that, trimmed and lower-cased, is "true"
C26_ClassificationFailsSafe ==
    /\ ClassifierFailed =>
          /\ reply.raised
          /\ ~is_genetic
          /\ pc = "raised" => calls[Len(calls)] # "print:Error in genetics classification"
          /\ caller = "answer_question_stream" =>
                \E i \in 1..Len(events) : IsStep(events[i], "dataset")
          /\ (has_bean_keywords /\ pc # "tabular") =>
                Called("chat.completions.create:functions")
    /\ is_genetic => (~reply.raised /\ SaysTrue(reply.content))

C26_Witness ==
    /\ ClassifierFailed
    /\ caller = "answer_question_stream"
    /\ has_bean_keywords
    /\ pc = "bean_query"

\* ---- C27 ----
QueryFailed == Called("query_pinecone:raised")

\* C27: when one of the two index queries fails, no call follows it (no
\* second attempt, no other query), the orchestrator has raised and takes no
\* further step, answer_question has returned no tuple, and the stream holds
\* no event after the "search" step: no content, no metadata
C27_QueryFailurePropagates ==
    QueryFailed =>
        /\ pc = "raised"
        /\ calls[Len(calls)] = "query_pinecone:raised"
        /\ \A i \in 1..(Len(calls) - 1) : calls[i] # "query_pinecone:raised"
        /\ Cardinality({i \in 1..Len(calls) : calls[i] = "query_pinecone"}) <= 1
        /\ result = <<>>
        /\ caller \in StreamCallers =>
              /\ IsStep(events[Len(events)], "search")
              /\ \A i \in 1..Len(events) :
                    events[i].type \notin {"metadata", "bean_complete"}
        /\ caller = "answer_question" => events = <<>>
        /\ ~ENABLED FrontNext

C27_Witness ==
    /\ QueryFailed
    /\ caller = "answer_question_stream"
    /\ Len(bge_matches) = 1
    /\ pc = "raised"

\* ---- C28 ----
\* C28: whenever answer_question has returned, by the empty-context return
\* or by the last line, the result is one tuple of four elements (answer,
\* sources, genes, placeholder) and the fourth is the empty string
C28_FourthElementIsEmpty ==
    caller = "answer_question" =>
        /\ pc = "returned" <=> result # <<>>
        /\ result # <<>> =>
              /\ Len(result) = 1
              /\ DOMAIN result[1] = {"answer", "sources", "genes", "table"}
              /\ result[1].table = EmptyStr

C28_Witness ==
    /\ caller = "answer_question"
    /\ pc = "returned"
    /\ result[1].answer = NoPapers
    /\ result[1].sources # <<>>
    /\ result[1].table = EmptyStr

\* ---- C29 ----
TabularAnswered ==
    /\ caller = "answer_question_stream"
    /\ ~is_genetic
    /\ has_bean_keywords
    /\ choice = [finish_reason |-> "function_call", name |-> "query_bean_data"]
    /\ preview # EmptyStr

\* the text of all the content events
ContentText ==
    LET cat[i \in 0..Len(events)] ==
            IF i = 0 THEN EmptyStr
            ELSE IF IsContent(events[i]) THEN cat[i - 1] \o events[i].data
                 ELSE cat[i - 1]
    IN  cat[Len(events)]

\* C29: in answer_question_stream, once answer_bean_query has answered a
\* question that is not about genetics, the run only requests the summary:
\* nothing is embedded, queried, synthesized or extracted and no metadata
\* event is sent; when the summary request returns, the content events are
\* the summary, one bean_complete event with no sources, no genes, the table
\* and the chart follows as the last event, and the run takes no further step
C29_TabularShortCircuit ==
    TabularAnswered =>
        /\ pc \in {"summary", "bean_done", "raised"}
        /\ bge_matches = <<>> /\ pub_matches = <<>>
        /\ \A i \in 1..Len(calls) :
              calls[i] \notin {"query_pinecone", "query_pinecone:raised", "query_openai",
                               "query_openai_stream", "extract_gene_mentions",
                               "process_genes_batch"}
        /\ \A i \in 1..Len(events) :
              /\ ~IsMetadata(events[i])
              /\ ~IsStep(events[i], "embeddings")
              /\ ~IsStep(events[i], "search")
        /\ pc = "summary" => ContentText = EmptyStr
        /\ pc = "bean_done" =>
              /\ ContentText = final_answer
              /\ events[Len(events)] = BeanComplete(full_md, chart_data)
              /\ Cardinality({i \in 1..Len(events) :
                                 events[i].type = "bean_complete"}) = 1
              /\ ~ENABLED FrontNext

C29_Witness ==
    /\ TabularAnswered
    /\ pc = "bean_done"
    /\ chart_data # <<>>
    /\ final_answer # EmptyStr
    /\ events[Len(events)].type = "bean_complete"

\* ---- C30 ----
\* C30: whenever answer_question returns after a tabular analysis with a
\* valid result, the answer begins with the transition message that carries
\* the preview
C30_AnswerBeginsWithPreview ==
    (/\ caller = "answer_question"
     /\ pc = "returned"
     /\ \E b \in BeanResults : transition_message = AnalysisTransition(b.preview)) =>
        /\ Len(result[1].answer) >= Len(transition_message)
        /\ SubSeq(result[1].answer, 1, Len(transition_message)) = transition_message

\* ---- C36 ----
\* C36: a run of answer_question_stream ends in a raised error only when a
\* query of an index has failed; a failure of the tabular analysis (the
\* function-call request, answer_bean_query, the summary request) does not
\* reach the caller
C36_OnlyRetrievalFailuresRaise ==
    (caller = "answer_question_stream" /\ pc = "raised") => QueryFailed

\* ---- C31 ----
\* C31: whatever the interleaving of the callers of get_models, each heavy
\* model is loaded at most once, and every caller returns the same four
\* handles, none of them None
C31_LoadedOnceAndComplete ==
    /\ loads.bge_model <= 1
    /\ loads.tokenizer <= 1
    /\ loads.pub_model <= 1
    /\ \A t \in DOMAIN threads :
          threads[t].ret # <<>> =>
             /\ threads[t].ret[1].bge_model # 0
             /\ threads[t].ret[1].tokenizer # 0
             /\ threads[t].ret[1].pub_model # 0
             /\ threads[t].ret[1].device # 0
             /\ \A u \in DOMAIN threads :
                   threads[u].ret # <<>> => threads[u].ret = threads[t].ret

\* ---- C32 ----
\* C32: no step of an orchestrator or of a synthesizer request changes the
\* caller's conversation history: the list has the same turns in the same
\* order after every step, whether the run returns, fails or is still going
C32_HistoryNotMutated == [][conversation_history' = conversation_history]_vars

C32_Witness ==
    /\ Len(conversation_history) >= 2
    /\ messages # <<>>
    /\ pc \in {"returned", "stream_done", "raised"}

\* ---- C33 ----
\* C33: the messages of a synthesizer request are the system turn, the prior
\* turns in their order, the question, and last the turn that carries the
\* context: len(history) + 3 messages
C33_MessageSequence ==
    messages # <<>> =>
        LET n == Len(conversation_history)
        IN  /\ Len(messages) = n + 3
            /\ messages[1].role = "system"
            /\ \A i \in 1..n : messages[i + 1] = conversation_history[i]
            /\ messages[n + 2] = [role |-> "user", content |-> Question(caller)]
            /\ messages[n + 3] = [role |-> "user", content |-> <<"Context:\n">> \o context]

C33_Witness ==
    /\ Len(conversation_history) >= 2
    /\ caller \in StreamCallers
    /\ messages # <<>>
    /\ context # EmptyStr

\* ---- the reference section of a returned answer ----
\* the text of the returned answer after the header of the references, and
\* the empty text when the answer holds no such header
ReferenceSection ==
    LET answer == result[1].answer
        at == {i \in 1..Len(answer) : answer[i] = "\n\n---\n\n## References\n\n"}
    IN  IF at = {} THEN EmptyStr
        ELSE SubSeq(answer, (CHOOSE i \in at : \A k \in at : i <= k) + 1, Len(answer))

HasReferences ==
    \E i \in 1..Len(result[1].answer) :
       result[1].answer[i] = "\n\n---\n\n## References\n\n"

\* ---- C34 ----
\* the synthesizer, when answer_question has called it, has given the
\* streaming run the text it gave answer_question
SameCompletion ==
    Called("query_openai") =>
        result[1].answer =
            transition_message \o strip(full_response)
                \o (IF confirmed_dois # <<>> THEN references_text(confirmed_dois)
                    ELSE EmptyStr)

\* C34: when answer_question_stream has finished on the question and the
\* responses that answer_question has returned on, no service failing, its
\* content fragments
\* make up the answer of answer_question without the transition message and
\* the reference section
C34_StreamedTextIsBatchAnswer ==
    (/\ caller = "answer_question_stream"
     /\ pc = "stream_done"
     /\ result # <<>>
     /\ ~Failed
     /\ SameCompletion) =>
        result[1].answer =
            transition_message \o ContentText
                \o (IF HasReferences THEN references_text(result[1].sources)
                    ELSE EmptyStr)

\* ---- C35 ----
\* C35: once the caller has abandoned a stream whose fragments were being
\* forwarded, the stream of the completion service is closed, no step of the
\* run follows, and the gene extraction has not been called
C35_AbandonedStreamIsReleased ==
    pc = "abandoned" =>
        /\ upstream = "closed"
        /\ ~Called("extract_gene_mentions")
        /\ ~ENABLED RunNext

\* ---- C37 ----
TabularFailed == Called("print:Bean data query failed")

\* how many times the indexes have been queried
Queries ==
    Cardinality({i \in 1..Len(calls) :
                    calls[i] \in {"query_pinecone", "query_pinecone:raised"}})

\* C37: when the tabular step of answer_question has failed, the failure is
\* absorbed: the transition message is the one of the dataset issue, the run
\* queries the indexes, it raises only for a failed query or a failed
\* synthesis, and the answer that follows a confirmed source begins with the
\* transition message
C37_TabularFailureIsAbsorbed ==
    (caller = "answer_question" /\ TabularFailed) =>
        /\ transition_message = IssueTransition
        /\ pc = "raised" => (QueryFailed \/ Called("query_openai"))
        /\ pc = "returned" => Queries = 2
        /\ (pc = "returned" /\ confirmed_dois # <<>>) =>
              /\ Len(result[1].answer) > Len(IssueTransition)
              /\ SubSeq(result[1].answer, 1, Len(IssueTransition)) = IssueTransition

C37_Witness ==
    /\ caller = "answer_question"
    /\ TabularFailed
    /\ pc = "returned"
    /\ confirmed_dois # <<>>
    /\ choice.name = "query_bean_data"

\* ---- C38 ----
IsTerminal(e) == e.type \in {"bean_complete", "metadata"}

\* C38: a streaming run that has finished has yielded one terminal event,
\* bean_complete or metadata, and it is the last event; answer_question_stream
\* yields the "thinking" step before anything else
C38_OneTerminalEventLast ==
    /\ (caller \in StreamCallers /\ pc \in {"bean_done", "stream_done"}) =>
          /\ events # <<>>
          /\ {i \in 1..Len(events) : IsTerminal(events[i])} = {Len(events)}
          /\ caller = "continue_with_research_stream" => IsMetadata(events[Len(events)])
    /\ (caller = "answer_question_stream" /\ events # <<>>) =>
          IsStep(events[1], "thinking")

C38_Witness ==
    /\ caller = "answer_question_stream"
    /\ pc = "stream_done"
    /\ confirmed_dois # <<>>
    /\ IsMetadata(events[Len(events)])
    /\ ~is_genetic

C38_TabularWitness ==
    /\ caller = "answer_question_stream"
    /\ pc = "bean_done"
    /\ events[Len(events)].type = "bean_complete"

\* ---- C39 ----
\* where a step is first announced, 0 when it has not been
FirstStep(step) ==
    LET at == {i \in 1..Len(events) : IsStep(events[i], step)}
    IN  IF at = {} THEN 0 ELSE CHOOSE i \in at : \A k \in at : i <= k

\* the steps announced from "embeddings" on
LiteratureSteps ==
    LET from == FirstStep("embeddings")
        steps[i \in 0..Len(events)] ==
            IF i = 0 THEN <<>>
            ELSE IF from # 0 /\ i >= from /\ events[i].type = "progress"
                 THEN Append(steps[i - 1], events[i].data.step)
                 ELSE steps[i - 1]
    IN  steps[Len(events)]

StepRank(step) ==
    CASE step = "embeddings" -> 1
      [] step = "search" -> 2
      [] step = "papers" -> 3
      [] step = "generation" -> 4
      [] step = "gene_extraction" -> 5
      [] step = "gene_processing" -> 6
      [] step = "sources" -> 7
      [] step = "finalizing" -> 8
      [] OTHER -> 0

\* C39: from "embeddings" on, answer_question_stream announces its steps in
\* the order embeddings, search, papers, generation, gene_extraction,
\* gene_processing, sources, finalizing, the two gene steps being optional;
\* the indexes are queried after "search" and before "papers", the fragments
\* of the synthesizer are the content between "generation" and "sources", and
\* "gene_processing" is announced only for a list of mentions that is not empty
C39_StepOrder ==
    caller = "answer_question_stream" =>
        LET L == LiteratureSteps
            embeddings == FirstStep("embeddings")
            search == FirstStep("search")
            papers == FirstStep("papers")
            sources == FirstStep("sources")
        IN  /\ \A i \in 1..Len(L) :
                  /\ StepRank(L[i]) # 0
                  /\ i > 1 => StepRank(L[i - 1]) < StepRank(L[i])
                  /\ \A r \in {1, 2, 3, 4, 7, 8} :
                        r < StepRank(L[i]) => \E j \in 1..(i - 1) : StepRank(L[j]) = r
            /\ search = 0 => Queries = 0
            /\ papers # 0 => Queries = 2
            /\ Queries <= 2
            /\ embeddings # 0 =>
                  \A i \in (embeddings + 1)..Len(events) :
                      IsContent(events[i]) =>
                          /\ papers # 0
                          /\ \E g \in (papers + 1)..(i - 1) :
                                IsStep(events[g], "generation")
                          /\ sources # 0 => i < sources
            /\ Called("query_openai_stream") => Forwarded = full_response
            /\ FirstStep("gene_processing") # 0 => gene_mentions # <<>>

C39_Witness ==
    /\ caller = "answer_question_stream"
    /\ pc = "stream_done"
    /\ FirstStep("gene_processing") # 0
    /\ FirstStep("gene_extraction") # 0
    /\ Len(full_response) >= 2

\* ---- C40 ----
\* C40: answer_question returns, with a confirmed source, an answer whose
\* references are the confirmed identifiers in their order, numbered from 1,
\* reference i naming the identifier of context block [i], and returns that
\* list as the sources; the answer holds a reference section exactly when a
\* source is confirmed
C40_ReferencesAreTheConfirmedSources ==
    (caller = "answer_question" /\ pc = "returned") =>
        /\ HasReferences <=> confirmed_dois # <<>>
        /\ confirmed_dois # <<>> =>
              LET S == ReferenceSection
                  opens == {p \in 1..Len(S) : S[p] = "["}
              IN  /\ result[1].sources = confirmed_dois
                  /\ Cardinality(opens) = Len(confirmed_dois)
                  /\ Len(context_blocks) = Len(confirmed_dois)
                  /\ \A p \in opens :
                        LET i == Cardinality({q \in opens : q <= p})
                            doi == confirmed_dois[i]
                        IN  /\ SubSeq(S, p, p + 2) = <<"[", ToString(i), "] ">>
                            /\ SubSeq(S, p + 3, p + 2 + Len(doi)) = doi
                            /\ S[p + 3 + Len(doi)] = " - "
                            /\ SubSeq(context_blocks[i], 1, 3 + Len(doi)) =
                                  <<"[", ToString(i), "] Source: ">> \o doi

C40_Witness ==
    /\ caller = "answer_question"
    /\ pc = "returned"
    /\ confirmed_dois # <<>>
    /\ HasReferences
    /\ Len(confirmed_dois) >= 2
    /\ confirmed_dois[1] # confirmed_dois[2]

====
